---- MODULE Spec2Model ----
(***************************************************************************)
(* RXIQ: SSRF-safe URL validation (app/services/url_validator.py), the     *)
(* bounded HTTP fetch (app/services/scraper.py, fetch_html), the error     *)
(* mapping of the v1 routes (app/routes/v1.py, _handle_scrape_error), the  *)
(* two-tier result cache (app/services/cache.py), alone and under         *)
(* concurrent writers, the cached endpoints of app/routes/v1.py with      *)
(* their key material, extract_content and extract_seo_metadata           *)
(* (app/services/scraper.py), and the readability, quality score and      *)
(* similarity computations of app/services/text_analytics.py.             *)
(*                                                                         *)
(* Representation.  An IP address is a record [v, g]: v is the IP version  *)
(* (4 or 6; 0 stands for a text that ipaddress.ip_address cannot parse)    *)
(* and g the sequence of its groups (4 octets or 8 hextets).  A network is *)
(* [v, g, prefix].  A URL is a record of its components; urlparse is       *)
(* modelled by what it does to them (scheme and host lower-cased, port and *)
(* path split off, ValueError on an unbalanced '[' in the netloc).  A      *)
(* header value is a sequence of characters.                               *)
(***************************************************************************)
EXTENDS Integers, Sequences, FiniteSets, TLC

VARIABLES
    settings,   \* settings.blocked_url_patterns_list (fixed at start-up)
    dns,        \* what the resolver answers for each dynamic host name
    pc,         \* position of the current call
    op,         \* which entry point is running: validate_url or the route
    url,        \* the argument of the current call
    outcome,    \* what validate_url returned or raised in this call
    cur,        \* URL of the request httpx currently has in flight
    hops,       \* redirects followed so far (len(history) in httpx)
    requests,   \* HTTP requests issued in this call
    response,   \* the final response httpx handed back
    result,     \* what fetch_html returned: (html, final_url)
    exc,        \* the exception fetch_html raised
    http,       \* the HTTP answer of the route
    now,             \* the clock, in ticks
    _memory_cache,   \* the local tier, least recently used entry first
    _redis_available,\* the shared tier was reached at start-up
    redis,           \* what the shared tier holds
    tasks,           \* the call each task made last, with its answer
    active,          \* the tasks the event loop runs
    callers,         \* what the callers of this run pass to the cache
    used,            \* history: the keys the local tier holds, by last use
    request,         \* the request an endpoint is serving
    args,            \* the arguments of a call of a function on a page
    returned         \* what that call returned

fetchVars == <<settings, dns, pc, op, url, outcome, cur, hops, requests,
               response, result, exc, http>>

cacheVars == <<now, _memory_cache, _redis_available, redis, tasks, active,
               callers, used>>

routeVars == <<request>>

pageVars == <<args, returned>>

vars == <<settings, dns, pc, op, url, outcome, cur, hops, requests,
          response, result, exc, http, now, _memory_cache,
          _redis_available, redis, tasks, active, callers, used, request,
          args, returned>>

----------------------------------------------------------------------------
(* Bounds of the model *)

\* widest character of a response body, in bytes (1 = ASCII only)
MaxCharWidth == 2

(* Program constants *)

\* httpx.AsyncClient(max_redirects=5)
MaxRedirects == 5

\* the ceiling of fetch_html: 10_000_000
MaxResponseSize == 10000000

----------------------------------------------------------------------------
(* IP addresses and networks: ipaddress.ip_address / ip_network *)

Min(a, b) == IF a < b THEN a ELSE b
Max(a, b) == IF a > b THEN a ELSE b

RECURSIVE Pow2(_)
Pow2(n) == IF n = 0 THEN 1 ELSE 2 * Pow2(n - 1)

IP4(a, b, c, d) == [v |-> 4, g |-> <<a, b, c, d>>]
IP6(a, b, h) == [v |-> 6, g |-> <<a, b, 0, 0, 0, 0, 0, h>>]
\* a sockaddr text that ipaddress.ip_address rejects with ValueError
BadIP == [v |-> 0, g |-> <<>>]
NoIP == [v |-> 0, g |-> <<0>>]

Net4(a, b, c, d, p) == [v |-> 4, g |-> <<a, b, c, d>>, prefix |-> p]
Net6(a, h, p) == [v |-> 6, g |-> <<a, 0, 0, 0, 0, 0, 0, h>>, prefix |-> p]

GroupBits(v) == IF v = 4 THEN 8 ELSE 16

\* a variant that compares every group the prefix reaches as a whole, as if
\* the prefix ended on a group boundary
InNetworkExactGroups(ip, net) ==
    /\ ip.v = net.v
    /\ \A i \in 1..Len(net.g) :
          ((i - 1) * GroupBits(net.v) < net.prefix) => ip.g[i] = net.g[i]

\* `ip in network`: same version and the first `prefix` bits agree
InNetwork(ip, net) ==
    /\ ip.v = net.v
    /\ \A i \in 1..Len(net.g) :
          LET w == GroupBits(net.v)
              covered == Min(Max(net.prefix - (i - 1) * w, 0), w)
              shift == Pow2(w - covered)
          IN (ip.g[i] \div shift) = (net.g[i] \div shift)

_BLOCKED_NETWORKS == <<
    Net4(10, 0, 0, 0, 8),
    Net4(172, 16, 0, 0, 12),
    Net4(192, 168, 0, 0, 16),
    Net4(127, 0, 0, 0, 8),
    Net4(169, 254, 0, 0, 16),
    Net4(0, 0, 0, 0, 8),
    Net6(0, 1, 128),
    Net6(64512, 0, 7),
    Net6(65152, 0, 10) >>

_ALLOWED_SCHEMES == {"http", "https"}

----------------------------------------------------------------------------
(* Host names, URLs and urlparse *)

\* A host as written in a URL.  kind "name": a DNS name (name is its lower-
\* case form, upper says it was written in upper case).  kind "lit": an
\* IP literal; name is its spelling ("canon": the canonical text that
\* str(ip) gives, "short": another spelling the resolver accepts, such as
\* 127.1), ip its value.  kind "none": the URL has no host.
NameHost(n, up) == [kind |-> "name", name |-> n, upper |-> up, ip |-> NoIP]
LitHost(a, sp) == [kind |-> "lit", name |-> sp, upper |-> FALSE, ip |-> a]
NoHost == [kind |-> "none", name |-> "", upper |-> FALSE, ip |-> NoIP]

\* str.lower() on the texts that occur in the model
LowerStr(s) ==
    CASE s = "HTTP" -> "http"
      [] s = "ADMIN" -> "admin"
      [] OTHER -> s

\* ParseResult.hostname lower-cases the host
LowerHost(h) == [h EXCEPT !.upper = FALSE]

_ALWAYS_BLOCKED_HOSTS == {
    NameHost("metadata.google.internal", FALSE),
    LitHost(IP4(169, 254, 169, 254), "canon"),
    NameHost("metadata.azure.internal", FALSE) }

\* urlparse(url): ValueError("Invalid IPv6 URL") when the netloc has an
\* unbalanced bracket; otherwise the lower-cased scheme and the hostname
\* (None when the netloc has no host).
urlparse(u) ==
    IF ~u.netlocOk
    THEN [raised |-> TRUE, scheme |-> "", hostname |-> NoHost]
    ELSE [raised |-> FALSE,
          scheme |-> LowerStr(u.scheme),
          hostname |-> IF u.host.kind = "none" THEN NoHost
                       ELSE LowerHost(u.host)]

\* re.search(pattern, url, re.IGNORECASE) for a pattern that is a literal
\* word: the word occurs, in any case, in the text of the URL.
UrlWords(u) ==
    {u.scheme} \cup (IF u.host.kind = "name" THEN {u.host.name} ELSE {})
               \cup {u.path[i] : i \in 1..Len(u.path)}

re_search(pattern, u) ==
    \E w \in UrlWords(u) : LowerStr(w) = LowerStr(pattern)

----------------------------------------------------------------------------
(* The resolver: socket.getaddrinfo *)

Answer(as) == [err |-> "none", addrs |-> as]
GaiError == [err |-> "gaierror", addrs |-> <<>>]
IdnaError == [err |-> "UnicodeError", addrs |-> <<>>]

PublicV4 == IP4(93, 184, 216, 34)
PublicV6 == IP6(9734, 10240, 1)

\* names whose answer does not change during a run
StaticDns ==
    [n \in {"example.com", "localhost", "mixed.test", "nx.test"} |->
        CASE n = "example.com" -> Answer(<<PublicV4, PublicV6>>)
          [] n = "localhost" -> Answer(<<IP6(0, 0, 1), IP4(127, 0, 0, 1)>>)
          [] n = "mixed.test" -> Answer(<<PublicV4, IP4(10, 0, 0, 1)>>)
          [] n = "nx.test" -> GaiError]

\* names whose answer the environment may change at any time
DynamicNames == {"rebind.test", "metadata.google.internal"}

DnsAnswers == {
    Answer(<<PublicV4>>),
    Answer(<<IP4(192, 168, 1, 1)>>),
    Answer(<<BadIP, PublicV6>>),
    GaiError }

\* a name with a label of more than 63 characters: the idna codec that
\* getaddrinfo applies to a str host raises UnicodeError
LongLabelNames == {"aaaaaaaaaaaaaaaaaaaaaaaaaaaaaaaaaaaaaaaaaaaaaaaaaaaaaaaaaaaaaaaa.com"}

getaddrinfo(hostname, d) ==
    IF hostname.kind = "lit" THEN Answer(<<hostname.ip>>)
    ELSE IF hostname.name \in LongLabelNames THEN IdnaError
    ELSE IF hostname.name \in DOMAIN d THEN d[hostname.name]
    ELSE IF hostname.name \in DOMAIN StaticDns THEN StaticDns[hostname.name]
    ELSE GaiError

----------------------------------------------------------------------------
(* validate_url *)

NoUrl == [scheme |-> "", netlocOk |-> TRUE, host |-> NoHost, port |-> 0,
          path |-> <<>>]

Raise(type, reason) == [exc |-> type, reason |-> reason, value |-> NoUrl]
\* a variant that returns the URL rebuilt from its parsed parts
ReturnNormalized(u) ==
    [exc |-> "none", reason |-> "",
     value |-> [u EXCEPT !.scheme = LowerStr(u.scheme), !.port = 0]]

Return(u) == [exc |-> "none", reason |-> "", value |-> u]
NoOutcome == [exc |-> "unset", reason |-> "", value |-> NoUrl]

\* the loop over addr_infos: an address that does not parse is skipped
\* (except ValueError: continue); the first one inside a blocked network
\* raises
AnyBlocked(addrs) ==
    \E i \in 1..Len(addrs) :
        /\ addrs[i].v # 0
        /\ \E k \in 1..Len(_BLOCKED_NETWORKS) :
              InNetwork(addrs[i], _BLOCKED_NETWORKS[k])

validate_url(u, d, patterns) ==
    LET parsed == urlparse(u) IN
    IF parsed.raised THEN Raise("ValueError", "Invalid IPv6 URL")
    ELSE IF parsed.scheme \notin _ALLOWED_SCHEMES
    THEN Raise("URLValidationError", "InvalidScheme")
    ELSE IF parsed.hostname.kind = "none"
    THEN Raise("URLValidationError", "MissingHost")
    ELSE IF LowerHost(parsed.hostname) \in _ALWAYS_BLOCKED_HOSTS
    THEN Raise("URLValidationError", "BlockedHost")
    ELSE IF \E i \in 1..Len(patterns) : re_search(patterns[i], u)
    THEN Raise("URLValidationError", "BlockedHost")
    ELSE LET infos == getaddrinfo(parsed.hostname, d) IN
         IF infos.err = "gaierror"
         THEN Raise("URLValidationError", "UnresolvableHost")
         ELSE IF infos.err = "UnicodeError"
         THEN Raise("UnicodeError", "idna")
         ELSE IF AnyBlocked(infos.addrs)
         THEN Raise("URLValidationError", "BlockedNetwork")
         ELSE Return(u)

----------------------------------------------------------------------------
(* Texts of header values: sequences of characters *)

UpperLetters == <<"A", "B", "C", "D", "E", "F", "G", "H", "I", "J", "K", "L",
                  "M", "N", "O", "P", "Q", "R", "S", "T", "U", "V", "W", "X",
                  "Y", "Z">>
LowerLetters == <<"a", "b", "c", "d", "e", "f", "g", "h", "i", "j", "k", "l",
                  "m", "n", "o", "p", "q", "r", "s", "t", "u", "v", "w", "x",
                  "y", "z">>

LowerChar(c) ==
    IF \E i \in 1..26 : UpperLetters[i] = c
    THEN LowerLetters[CHOOSE i \in 1..26 : UpperLetters[i] = c]
    ELSE c

\* str.lower()
lower(s) == [i \in 1..Len(s) |-> LowerChar(s[i])]

\* `sub in s`
Contains(sub, s) ==
    \E i \in 1..(Len(s) - Len(sub) + 1) : SubSeq(s, i, i + Len(sub) - 1) = sub

----------------------------------------------------------------------------
(* Exceptions and the error mapping of the routes *)

NoExc == [type |-> "none", msg |-> "", status |-> 0]
Exc(type, msg) == [type |-> type, msg |-> msg, status |-> 0]
\* httpx.HTTPStatusError keeps the response, and with it the status code
StatusExc(st) == [type |-> "HTTPStatusError", msg |-> "status", status |-> st]

\* the classes an exception is an instance of
Classes(type) ==
    CASE type = "URLValidationError" -> {"URLValidationError", "Exception"}
      [] type = "ConnectTimeout" ->
            {"ConnectTimeout", "TimeoutException", "TransportError",
             "RequestError", "HTTPError", "Exception"}
      [] type = "ReadTimeout" ->
            {"ReadTimeout", "TimeoutException", "TransportError",
             "RequestError", "HTTPError", "Exception"}
      [] type = "HTTPStatusError" ->
            {"HTTPStatusError", "HTTPError", "Exception"}
      [] type = "ConnectError" ->
            {"ConnectError", "NetworkError", "TransportError",
             "RequestError", "HTTPError", "Exception"}
      [] type = "TooManyRedirects" ->
            {"TooManyRedirects", "RequestError", "HTTPError", "Exception"}
      [] type = "UnicodeError" -> {"UnicodeError", "ValueError", "Exception"}
      [] type = "ValueError" -> {"ValueError", "Exception"}
      [] OTHER -> {"Exception"}

isinstance(e, cls) == cls \in Classes(e.type)

NoHttp == [status |-> 0, code |-> "", message |-> "", upstream |-> 0]
HTTPException(st, code, message, up) ==
    [status |-> st, code |-> code, message |-> message, upstream |-> up]

FailedCodeOfExtraction(endpoint) == "EXTRACTION_FAILED"

\* f"{endpoint.upper()}_FAILED"
FailedCode(endpoint) ==
    CASE endpoint = "extraction" -> "EXTRACTION_FAILED"
      [] endpoint = "summarization" -> "SUMMARIZATION_FAILED"
      [] endpoint = "sentiment" -> "SENTIMENT_FAILED"
      [] endpoint = "seo_extraction" -> "SEO_EXTRACTION_FAILED"
      [] endpoint = "analysis" -> "ANALYSIS_FAILED"
      [] endpoint = "comparison" -> "COMPARISON_FAILED"
      [] OTHER -> "FAILED"

\* a variant that reports a failed connection under the upstream code
handle_connect_as_upstream(e, endpoint) ==
    IF isinstance(e, "URLValidationError")
    THEN HTTPException(400, "INVALID_URL", e.msg, 0)
    ELSE IF isinstance(e, "TimeoutException")
    THEN HTTPException(504, "TIMEOUT", "took too long", 0)
    ELSE IF isinstance(e, "HTTPStatusError") \/ isinstance(e, "ConnectError")
    THEN HTTPException(502, "UPSTREAM_ERROR", "returned HTTP", e.status)
    ELSE IF isinstance(e, "ValueError")
    THEN HTTPException(422, "INVALID_CONTENT", e.msg, 0)
    ELSE HTTPException(500, FailedCode(endpoint), "unexpected", 0)

\* upstream is the status code that the message of UPSTREAM_ERROR quotes
_handle_scrape_error(e, endpoint) ==
    IF isinstance(e, "URLValidationError")
    THEN HTTPException(400, "INVALID_URL", e.msg, 0)
    ELSE IF isinstance(e, "TimeoutException")
    THEN HTTPException(504, "TIMEOUT", "took too long", 0)
    ELSE IF isinstance(e, "HTTPStatusError")
    THEN HTTPException(502, "UPSTREAM_ERROR", "returned HTTP", e.status)
    ELSE IF isinstance(e, "ConnectError")
    THEN HTTPException(502, "CONNECTION_FAILED", "could not connect", 0)
    ELSE IF isinstance(e, "ValueError")
    THEN HTTPException(422, "INVALID_CONTENT", e.msg, 0)
    ELSE HTTPException(500, FailedCode(endpoint), "unexpected", 0)

----------------------------------------------------------------------------
(* fetch_html: what it does with the response httpx hands back *)

NoBody == [chars |-> 0, bytes |-> 0]
NoHeader == [present |-> FALSE, value |-> <<>>]
Header(v) == [present |-> TRUE, value |-> v]
NoResponse == [status |-> 0, ctype |-> NoHeader, body |-> NoBody]
NoResult == [returned |-> FALSE, html |-> NoBody, final_url |-> NoUrl]

\* a variant that takes only 4xx and 5xx for failures
is_not_error(st) == st < 400

\* Response.is_success
is_success(st) == 200 <= st /\ st <= 299

\* response.headers.get("content-type", "")
HeaderGet(h, default) == IF h.present THEN h.value ELSE default

\* a variant with the test for "text" inverted
NotHtmlButText(content_type) ==
    /\ content_type # <<>>
    /\ ~Contains(<<"h", "t", "m", "l">>, lower(content_type))
    /\ Contains(<<"t", "e", "x", "t">>, lower(content_type))

\* the content-type test of fetch_html
NotHtmlIsh(content_type) ==
    /\ content_type # <<>>
    /\ ~Contains(<<"h", "t", "m", "l">>, lower(content_type))
    /\ ~Contains(<<"t", "e", "x", "t">>, lower(content_type))

\* len(response.text): the number of characters of the decoded body
TextLen(body) == body.chars

\* the statements after `await client.get(...)`: the exception raised, or
\* NoExc when (response.text, str(response.url)) is returned
AfterGet(r) ==
    IF ~is_success(r.status) THEN StatusExc(r.status)
    ELSE IF NotHtmlIsh(HeaderGet(r.ctype, <<>>))
    THEN Exc("ValueError", "non-HTML content type")
    ELSE IF TextLen(r.body) > MaxResponseSize
    THEN Exc("ValueError", "Response too large")
    ELSE NoExc

----------------------------------------------------------------------------
(* Inputs *)

Schemes == {"http", "https", "HTTP", "ftp", ""}

LiteralIPs == {
    IP4(10, 0, 0, 1), IP4(10, 255, 255, 255), IP4(11, 0, 0, 1),
    IP4(172, 16, 0, 1), IP4(172, 31, 255, 255), IP4(172, 32, 0, 1),
    IP4(172, 15, 255, 255), IP4(192, 168, 1, 1), IP4(192, 169, 0, 1),
    IP4(127, 0, 0, 1), IP4(128, 0, 0, 1), IP4(169, 254, 169, 254),
    IP4(169, 254, 1, 1), IP4(0, 0, 0, 1), IP4(1, 0, 0, 0), PublicV4,
    IP6(0, 0, 1), IP6(0, 0, 2), IP6(64512, 0, 1), IP6(65023, 65535, 1),
    IP6(65024, 0, 1), IP6(65152, 0, 1), IP6(65215, 65535, 1),
    IP6(65216, 0, 1), [v |-> 6, g |-> <<0, 0, 0, 0, 0, 1, 0, 1>>], PublicV6 }

Names == {"example.com", "localhost", "mixed.test", "nx.test",
          "rebind.test", "metadata.google.internal",
          "metadata.azure.internal"} \cup LongLabelNames

Hosts ==
    {LitHost(a, "canon") : a \in LiteralIPs}
    \cup {LitHost(IP4(127, 0, 0, 1), "short"),
          LitHost(IP4(169, 254, 169, 254), "short")}
    \cup {NameHost(n, FALSE) : n \in Names}
    \cup {NameHost("metadata.google.internal", TRUE), NoHost}

Paths == {<<>>, <<"path", "q=test">>, <<"ADMIN">>}

Urls ==
    [scheme : Schemes, netlocOk : BOOLEAN, host : Hosts, port : {0, 8080},
     path : Paths]

HttpUrl(h) == [scheme |-> "http", netlocOk |-> TRUE, host |-> h, port |-> 0,
               path |-> <<>>]

\* the URLs fetch_html is called with
FetchUrls ==
    {HttpUrl(h) : h \in {NameHost("example.com", FALSE),
                         NameHost("rebind.test", FALSE),
                         NameHost("nx.test", FALSE),
                         NameHost("metadata.google.internal", FALSE),
                         LitHost(IP4(10, 0, 0, 1), "canon"),
                         LitHost(PublicV6, "canon"),
                         NoHost} \cup {NameHost(n, FALSE) : n \in LongLabelNames}}
    \cup {[HttpUrl(NameHost("example.com", FALSE)) EXCEPT !.scheme = "ftp"],
          [HttpUrl(LitHost(IP6(0, 0, 1), "canon")) EXCEPT !.netlocOk = FALSE],
          [HttpUrl(NameHost("example.com", FALSE)) EXCEPT !.path = <<"ADMIN">>]}

\* where a server may redirect to
RedirectTargets ==
    {HttpUrl(LitHost(IP4(10, 0, 0, 1), "canon")),
     HttpUrl(NameHost("rebind.test", FALSE))}

Statuses == {200, 299, 300, 404}

ContentTypes == {
    NoHeader,
    Header(<<>>),
    Header(<<"t", "e", "x", "t", "/", "h", "t", "m", "l">>),
    Header(<<"T", "E", "X", "T", "/", "H", "T", "M", "L">>),
    Header(<<"t", "e", "x", "t", "/", "p", "l", "a", "i", "n">>),
    Header(<<"a", "p", "p", "l", "i", "c", "a", "t", "i", "o", "n", "/", "x", "h", "t", "m", "l", "+", "x", "m", "l">>),
    Header(<<"a", "p", "p", "l", "i", "c", "a", "t", "i", "o", "n", "/", "j", "s", "o", "n">>),
    Header(<<"i", "m", "a", "g", "e", "/", "p", "n", "g">>) }

BodyChars == {1, MaxResponseSize, MaxResponseSize + 1}
Bodies == {[chars |-> c, bytes |-> c * w] : c \in BodyChars, w \in 1..MaxCharWidth}

Responses == [status : Statuses, ctype : ContentTypes, body : Bodies]

\* settings.blocked_url_patterns_list
PatternLists == {<<>>, <<"admin">>}

----------------------------------------------------------------------------
(* The result cache: app/services/cache.py *)

\* entries the local tier holds at most: stands for maxsize=1000
LocalMaxSize == 2

\* settings.cache_ttl in ticks of the clock
CacheTtl == 2

\* the clock stops here
MaxTime == 2

\* A payload is a dict.  The model keeps what the cache can tell apart:
\* "empty" is {}, "plain" a dict of JSON values, "rich" a dict holding a
\* value json has no encoding for (a datetime), "str" that dict after
\* json.dumps(default=str) and json.loads; n tells payloads of a kind apart.
None == [kind |-> "None", n |-> 0]
EmptyDict == [kind |-> "empty", n |-> 0]
Plain(n) == [kind |-> "plain", n |-> n]
Rich(n) == [kind |-> "rich", n |-> n]
Stringified(n) == [kind |-> "str", n |-> n]

\* the truth value Python gives a payload in `if value:`
bool(v) == v.kind \notin {"None", "empty"}

\* json.dumps(value, default=str): a text; str() replaces what json cannot
\* encode
json_dumps(v) == [text |-> IF v.kind = "rich" THEN Stringified(v.n) ELSE v]

\* json.loads(text)
json_loads(s) == s.text

\* hashlib.sha256(s.encode()).hexdigest(), as a sequence of hex digits, for
\* the texts the model digests (the values Python computes)
sha256_hexdigest(s) ==
    CASE s = "same-key" ->
           <<"b", "7", "f", "0", "6", "4", "6", "8", "d", "c", "e", "d", "3", "7", "5", "e",
             "c", "7", "2", "6", "a", "3", "2", "7", "f", "1", "6", "f", "d", "9", "9", "1",
             "9", "9", "f", "2", "8", "4", "8", "5", "f", "d", "5", "3", "3", "8", "a", "a",
             "0", "c", "8", "8", "2", "d", "c", "d", "a", "d", "a", "6", "f", "0", "7", "8">>
      [] s = "other-key" ->
           <<"5", "8", "0", "8", "4", "3", "d", "0", "3", "d", "2", "2", "1", "6", "f", "f",
             "1", "a", "2", "7", "5", "d", "0", "9", "9", "1", "b", "a", "d", "6", "6", "e",
             "4", "d", "1", "a", "f", "8", "7", "1", "1", "7", "1", "d", "9", "2", "9", "e",
             "9", "d", "e", "6", "0", "4", "b", "7", "9", "5", "9", "f", "9", "b", "c", "a">>
      [] s = "prefix_asame-key" ->
           <<"f", "8", "d", "2", "8", "1", "3", "e", "d", "8", "2", "4", "a", "1", "7", "1",
             "c", "e", "c", "d", "1", "6", "e", "a", "1", "1", "e", "4", "e", "f", "d", "2",
             "7", "1", "4", "9", "1", "9", "3", "2", "f", "0", "8", "5", "d", "6", "9", "4",
             "c", "8", "a", "7", "4", "6", "6", "f", "b", "a", "c", "3", "2", "b", "e", "c">>
      [] s = "prefix_bsame-key" ->
           <<"f", "d", "a", "3", "2", "8", "3", "a", "3", "8", "4", "f", "0", "2", "1", "4",
             "2", "7", "e", "d", "9", "f", "2", "6", "a", "d", "5", "7", "0", "0", "a", "3",
             "9", "6", "6", "5", "7", "d", "4", "1", "5", "1", "8", "3", "e", "3", "7", "2",
             "e", "9", "1", "6", "4", "9", "4", "3", "8", "7", "d", "3", "2", "3", "a", "7">>
      [] s = "prefix_aother-key" ->
           <<"7", "7", "7", "f", "0", "e", "2", "d", "2", "4", "f", "d", "b", "2", "5", "4",
             "8", "8", "2", "1", "1", "0", "6", "4", "8", "c", "1", "8", "9", "8", "f", "3",
             "7", "2", "b", "1", "2", "c", "a", "6", "f", "4", "d", "d", "c", "d", "7", "c",
             "3", "b", "0", "9", "d", "b", "3", "b", "f", "9", "e", "0", "8", "d", "4", "0">>
      [] s = "prefix_bother-key" ->
           <<"c", "e", "8", "b", "a", "0", "3", "5", "d", "3", "8", "a", "7", "d", "4", "0",
             "c", "e", "2", "b", "9", "5", "e", "c", "6", "b", "5", "d", "2", "d", "1", "b",
             "8", "8", "9", "6", "a", "5", "1", "2", "7", "7", "9", "7", "8", "3", "0", "b",
             "f", "7", "c", "b", "8", "4", "6", "f", "6", "3", "0", "9", "a", "6", "9", "8">>
      [] s = "http://example.com/:False:False:text" ->
           <<"b", "d", "5", "f", "7", "3", "1", "9", "2", "2", "9", "6", "2", "c", "0", "d",
             "5", "b", "6", "9", "4", "3", "a", "1", "6", "f", "6", "4", "c", "3", "4", "6",
             "b", "0", "5", "8", "b", "2", "8", "e", "a", "f", "5", "4", "6", "b", "c", "1",
             "5", "8", "1", "3", "9", "8", "4", "a", "2", "1", "3", "e", "d", "0", "3", "5">>
      [] s = "http://example.com/:tldr:200:en" ->
           <<"1", "3", "3", "e", "3", "9", "2", "3", "7", "b", "1", "d", "0", "c", "a", "f",
             "2", "a", "6", "5", "0", "6", "4", "b", "4", "0", "e", "f", "8", "9", "d", "f",
             "5", "f", "4", "f", "6", "a", "9", "1", "0", "e", "6", "9", "8", "1", "9", "2",
             "f", "7", "e", "6", "a", "7", "8", "c", "1", "4", "0", "6", "8", "4", "d", "3">>
      [] s = "Great product:tldr:200:en" ->
           <<"9", "b", "4", "0", "2", "f", "9", "d", "5", "3", "f", "1", "0", "2", "c", "e",
             "9", "c", "4", "6", "b", "3", "9", "4", "8", "6", "5", "3", "f", "8", "8", "7",
             "d", "c", "f", "a", "e", "1", "a", "7", "2", "0", "f", "c", "0", "7", "4", "7",
             "4", "3", "2", "8", "a", "e", "b", "0", "2", "e", "e", "5", "9", "3", "2", "c">>
      [] s = " :tldr:200:en" ->
           <<"a", "7", "e", "a", "a", "7", "0", "f", "a", "3", "4", "4", "7", "f", "4", "f",
             "b", "d", "9", "9", "2", "1", "6", "6", "c", "1", "b", "f", "a", "6", "2", "7",
             "9", "6", "b", "b", "6", "2", "0", "c", "2", "0", "0", "5", "f", "a", "7", "d",
             "c", "6", "1", "1", "b", "7", "3", "2", "2", "c", "1", "8", "1", "3", "5", "c">>
      [] s = "http://example.com/" ->
           <<"2", "a", "1", "b", "4", "0", "2", "4", "2", "0", "e", "f", "4", "6", "5", "7",
             "7", "4", "7", "1", "c", "d", "c", "7", "4", "0", "9", "b", "0", "f", "a", "2",
             "c", "6", "a", "2", "0", "4", "d", "b", "3", "1", "6", "e", "5", "9", "a", "d",
             "e", "2", "d", "8", "0", "5", "4", "3", "5", "4", "8", "9", "a", "0", "6", "7">>
      [] s = "Great product" ->
           <<"2", "1", "3", "1", "1", "1", "7", "4", "8", "2", "6", "b", "b", "f", "4", "5",
             "1", "f", "6", "a", "9", "0", "c", "b", "8", "f", "1", "5", "1", "e", "d", "d",
             "c", "5", "5", "4", "6", "3", "d", "d", "4", "e", "2", "9", "4", "e", "0", "b",
             "0", "e", "f", "5", "9", "e", "2", "b", "4", "9", "5", "b", "8", "3", "8", "8">>
      [] s = "http://example.com/:tldr:200" ->
           <<"c", "3", "d", "c", "7", "d", "7", "3", "e", "d", "e", "b", "6", "a", "0", "e",
             "2", "7", "6", "d", "c", "0", "5", "1", "f", "e", "0", "e", "4", "6", "e", "9",
             "2", "c", "1", "4", "a", "8", "3", "c", "7", "6", "e", "b", "2", "c", "1", "1",
             "b", "3", "4", "9", "1", "8", "2", "c", "c", "d", "4", "c", "d", "8", "2", "8">>
      [] s = "http://example.com/|http://example.org/" ->
           <<"4", "3", "d", "6", "e", "a", "f", "2", "c", "4", "6", "d", "d", "1", "c", "c",
             "9", "2", "5", "6", "e", "6", "a", "f", "e", "e", "0", "1", "2", "9", "2", "5",
             "2", "7", "f", "4", "d", "8", "9", "e", "d", "a", "3", "4", "1", "3", "9", "8",
             "f", "0", "2", "9", "0", "8", "5", "6", "1", "0", "2", "9", "0", "0", "7", "3">>
      [] s = "http://example.org/" ->
           <<"7", "8", "1", "b", "c", "0", "4", "e", "c", "9", "b", "d", "0", "4", "9", "c",
             "d", "f", "a", "c", "a", "e", "c", "4", "a", "e", "2", "0", "2", "6", "1", "0",
             "2", "1", "1", "8", "d", "1", "3", "c", "7", "9", "4", "1", "3", "2", "4", "6",
             "f", "0", "c", "8", "8", "e", "e", "e", "f", "6", "e", "b", "e", "c", "4", "e">>
      [] s = "http://example.net/" ->
           <<"1", "c", "1", "a", "b", "a", "f", "a", "1", "2", "a", "f", "4", "5", "7", "4",
             "7", "8", "9", "1", "8", "a", "c", "f", "0", "0", "6", "8", "d", "5", "f", "4",
             "e", "e", "c", "f", "e", "c", "8", "1", "9", "0", "0", "6", "9", "d", "3", "7",
             "7", "f", "5", "2", "4", "e", "e", "3", "9", "2", "a", "4", "d", "7", "0", "9">>
      [] s = "http://example.edu/" ->
           <<"9", "c", "a", "5", "e", "8", "9", "2", "2", "f", "6", "2", "c", "8", "1", "e",
             "d", "6", "9", "5", "a", "6", "8", "8", "e", "0", "f", "c", "0", "c", "f", "7",
             "7", "c", "6", "0", "1", "9", "1", "4", "d", "d", "7", "9", "2", "4", "1", "c",
             "0", "f", "5", "0", "6", "e", "8", "0", "a", "a", "e", "7", "5", "b", "5", "0">>

_cache_key_of_data(prefix, data) ==
    <<"ciq", "", SubSeq(sha256_hexdigest(data), 1, 16)>>

\* f"ciq:{prefix}:{h}" with h = hashlib.sha256(data.encode()).hexdigest()[:16]
_cache_key(prefix, data) ==
    <<"ciq", prefix, SubSeq(sha256_hexdigest(data), 1, 16)>>

\* `ttl or settings.cache_ttl`: None and 0 both give the default
TtlOr(ttl, default) == IF ttl # 0 THEN ttl ELSE default

(* cachetools.TTLCache: a sequence of entries [key, value, expires], the *)
(* least recently used first                                             *)

\* TTLCache.expire(time): drop what has expired
expire(cache, time) == SelectSeq(cache, LAMBDA e : time < e.expires)

\* `key in cache`: present and not expired
contains(cache, key, time) ==
    \E i \in 1..Len(cache) : cache[i].key = key /\ time < cache[i].expires

Entry(cache, key) ==
    cache[CHOOSE i \in 1..Len(cache) : cache[i].key = key]

Drop(cache, key) == SelectSeq(cache, LAMBDA e : e.key # key)

TTLCache_get_untouched(cache, key, time) ==
    IF contains(cache, key, time)
    THEN [value |-> Entry(cache, key).value, cache |-> cache]
    ELSE [value |-> None, cache |-> cache]

\* TTLCache.get(key): Cache.get tests `key in self` and then reads
\* self[key], which moves the key to the most recently used end
TTLCache_get(cache, key, time) ==
    IF contains(cache, key, time)
    THEN [value |-> Entry(cache, key).value,
          cache |-> Append(Drop(cache, key), Entry(cache, key))]
    ELSE [value |-> None, cache |-> cache]

\* TTLCache.__setitem__(key, value): expire(time) first; Cache.__setitem__
\* pops the least recently used entry while a new key does not fit; the
\* key becomes the most recently used and expires ttl after `time`
TTLCache_setitem(cache, key, value, time, ttl) ==
    LET live == expire(cache, time)
        known == \E i \in 1..Len(live) : live[i].key = key
        room == IF known \/ Len(live) + 1 <= LocalMaxSize
                THEN live ELSE Tail(live)
    IN  Append(Drop(room, key),
               [key |-> key, value |-> value, expires |-> time + ttl])

(* The shared tier: a set of entries [key, text, expires] *)

\* GET key: the text, or nothing once the entry has expired
redis_get(store, key, time) ==
    IF \E r \in store : r.key = key /\ time < r.expires
    THEN [found |-> TRUE,
          text |-> (CHOOSE r \in store : r.key = key /\ time < r.expires).text]
    ELSE [found |-> FALSE, text |-> json_dumps(None)]

\* SETEX key ttl text
redis_setex(store, key, ttl, text, time) ==
    {r \in store : r.key # key}
        \cup {[key |-> key, text |-> text, expires |-> time + ttl]}

\* the part of get_cached that reads the local tier (cache.py:83-87)
get_local(cache, key, time) ==
    LET g == TTLCache_get(cache, key, time) IN
    [ret |-> IF bool(g.value) THEN g.value ELSE None, cache |-> g.cache]

get_cached_unguarded(prefix, key_data, o, cache, store, available, time) ==
    LET key == _cache_key(prefix, key_data)
        value == redis_get(store, key, time)
        g == get_local(cache, key, time)
    IN  IF available /\ o = "error"
        THEN [ret |-> None, cache |-> cache, warned |-> TRUE,
              raised |-> TRUE]
        ELSE IF available /\ value.found
        THEN [ret |-> json_loads(value.text), cache |-> cache,
              warned |-> FALSE, raised |-> FALSE]
        ELSE [ret |-> g.ret, cache |-> g.cache, warned |-> FALSE,
              raised |-> FALSE]

\* get_cached(prefix, key_data), where o tells how the GET sent to the
\* shared tier ends: with the shared tier in use GET is tried first and a
\* value found is decoded and returned; a miss, or an exception (logged),
\* falls through to the local tier.  The answer, the local tier after
\* the call, whether a warning was logged and whether the call raised.
get_cached(prefix, key_data, o, cache, store, available, time) ==
    LET key == _cache_key(prefix, key_data)
        value == redis_get(store, key, time)
        g == get_local(cache, key, time)
    IN  IF available /\ o = "ok" /\ value.found
        THEN [ret |-> json_loads(value.text), cache |-> cache,
              warned |-> FALSE, raised |-> FALSE]
        ELSE [ret |-> g.ret, cache |-> g.cache,
              warned |-> (available /\ o = "error"), raised |-> FALSE]

\* set_cached(prefix, key_data, value, ttl), where o tells how the SETEX
\* sent to the shared tier ends: the local tier is written; with the
\* shared tier in use SETEX stores the encoded value for `ttl or
\* settings.cache_ttl`, or an exception is logged and the shared tier holds
\* what it held.
set_cached(prefix, key_data, value, ttl, o, cache, store, available, time) ==
    LET key == _cache_key(prefix, key_data) IN
    [cache |-> TTLCache_setitem(cache, key, value, time, CacheTtl),
     store |-> IF available /\ o = "ok"
               THEN redis_setex(store, key, TtlOr(ttl, CacheTtl),
                                json_dumps(value), time)
               ELSE store,
     warned |-> (available /\ o = "error"),
     raised |-> FALSE]

\* how a command sent to the shared tier ends: "error" is any Exception
\* raised inside the try block (connection, timeout, json)
RedisOutcomes == {"ok", "error"}

(* Tasks *)

TaskIds == {"t1", "t2"}

\* a task that runs no call; a call that has returned stays as the task's
\* state, with pc "done", until the task makes its next call: its
\* arguments, the time `at` it was made, its answer `ret`, whether the
\* command it sent to the shared tier failed, whether it logged a warning
\* and whether it raised
NoCall == [op |-> "none", prefix |-> "", key_data |-> "", value |-> None,
           ttl |-> 0, pc |-> "idle", at |-> 0, ret |-> None,
           failed |-> FALSE, raised |-> FALSE, warned |-> FALSE]

\* No key has been used.  `used` orders the keys the local tier holds by
\* their last use, least recent first: `calls` counts every get_cached and
\* set_cached call on the key as a use, `local` counts the calls that read
\* or wrote the local tier.
NoUse == [calls |-> <<>>, local |-> <<>>]

\* nobody calls the cache
NoCallers == [keys |-> {}, payloads |-> {}, ttls |-> {}, requests |-> {}]

\* the cache before the first call, with the shared tier not configured
CacheIdle ==
    /\ now = 0
    /\ _memory_cache = <<>>
    /\ _redis_available = FALSE
    /\ redis = {}
    /\ tasks = [t \in TaskIds |-> NoCall]
    /\ active = {}
    /\ callers = NoCallers
    /\ used = NoUse

----------------------------------------------------------------------------
(* The cached endpoints of app/routes/v1.py *)

\* A text of a request: its first 200 characters, the rest, and whether
\* it is white space only.
NoText == [head |-> "", tail |-> "", blank |-> TRUE]
BlankText == [head |-> " ", tail |-> "", blank |-> TRUE]
ShortText == [head |-> "Great product", tail |-> "", blank |-> FALSE]

\* a request body after validation, with the defaults of app/models.py;
\* booleans and numbers are kept as the text an f-string gives them
Request(endpoint, u, u2, text) ==
    [endpoint |-> endpoint, url |-> u, url2 |-> u2, text |-> text,
     include_images |-> "False", include_links |-> "False",
     output_format |-> "text", format |-> "tldr", max_length |-> "200",
     language |-> "en"]

NoRequest == Request("none", "", "", NoText)

Requests == {
    Request("extract", "http://example.com/", "", NoText),
    Request("summarize", "http://example.com/", "", NoText),
    Request("summarize", "", "", ShortText),
    Request("summarize", "", "", BlankText),
    Request("summarize", "", "", NoText),
    Request("sentiment", "http://example.com/", "", NoText),
    Request("sentiment", "", "", ShortText),
    Request("sentiment", "", "", NoText),
    Request("seo", "http://example.com/", "", NoText),
    Request("seo", "http://example.org/", "", NoText),
    Request("seo", "http://example.net/", "", NoText),
    Request("analyze", "http://example.com/", "", NoText),
    Request("compare", "http://example.com/", "http://example.org/", NoText) }

Endpoints == {r.endpoint : r \in Requests}

\* the clients of one run send the requests of one endpoint
RouteWorkloads ==
    {[keys |-> {}, payloads |-> {}, ttls |-> {},
      requests |-> {r \in Requests : r.endpoint = e}] : e \in Endpoints}

\* `if not request.url and not request.text`: 422 MISSING_INPUT
MissingInput(req) ==
    /\ req.endpoint \in {"summarize", "sentiment"}
    /\ req.url = ""
    /\ req.text.head = ""

\* str(request.url) if request.url else (request.text or "")[:200]
Source(req) == IF req.url # "" THEN req.url ELSE req.text.head

\* the cache_key each endpoint builds
cache_key(req) ==
    CASE req.endpoint = "extract" ->
            req.url \o ":" \o req.include_images \o ":" \o req.include_links
                \o ":" \o req.output_format
      [] req.endpoint = "summarize" ->
            Source(req) \o ":" \o req.format \o ":" \o req.max_length
                \o ":" \o req.language
      [] req.endpoint = "sentiment" -> Source(req)
      [] req.endpoint = "seo" -> req.url
      [] req.endpoint = "analyze" ->
            req.url \o ":" \o req.format \o ":" \o req.max_length
      [] req.endpoint = "compare" -> req.url \o "|" \o req.url2

\* the name each endpoint passes to _handle_scrape_error
EndpointName(endpoint) ==
    CASE endpoint = "extract" -> "extraction"
      [] endpoint = "summarize" -> "summarization"
      [] endpoint = "sentiment" -> "sentiment"
      [] endpoint = "seo" -> "seo_extraction"
      [] endpoint = "analyze" -> "analysis"
      [] endpoint = "compare" -> "comparison"

\* The steps of the try block of each endpoint, in order.  gather_fetch
\* is asyncio.gather over two fetch_html calls, gather_ai over the three
\* AI calls of /analyze; has_text is the `if not text.strip()` test.
Stages(req) ==
    CASE req.endpoint = "extract" -> <<"fetch_html", "extract_content">>
      [] req.endpoint \in {"summarize", "sentiment"} ->
            IF req.url # ""
            THEN <<"fetch_html", "extract_content", "has_text", "ai">>
            ELSE <<"has_text", "ai">>
      [] req.endpoint = "seo" -> <<"fetch_html", "extract_seo_metadata">>
      [] req.endpoint = "analyze" ->
            <<"fetch_html", "extract_content", "extract_seo_metadata",
              "has_text", "gather_ai">>
      [] req.endpoint = "compare" ->
            <<"gather_fetch", "extract_content", "extract_content",
              "has_text", "similarity">>
      [] OTHER -> <<>>

\* HTTPException(status_code=422, detail=ErrorDetail(code="NO_CONTENT"))
NoContent == [type |-> "HTTPException", msg |-> "NO_CONTENT", status |-> 422]

\* HTTPException(status_code=422, detail=ErrorDetail(code="MISSING_INPUT"))
MissingInputError ==
    [type |-> "HTTPException", msg |-> "MISSING_INPUT", status |-> 422]

\* what fetch_html raises
FetchExceptions ==
    {Exc("URLValidationError", "blocked"), Exc("ConnectTimeout", "timeout"),
     Exc("ReadTimeout", "timeout"), StatusExc(404),
     Exc("ConnectError", "connect"), Exc("ValueError", "content"),
     Exc("UnicodeError", "label too long"),
     Exc("TooManyRedirects", "redirects")}

\* how a step of the try block ends: NoExc when it returns, or the
\* exception it raises
StageOutcomes(stage, req) ==
    CASE stage \in {"fetch_html", "gather_fetch"} ->
            {NoExc} \cup FetchExceptions
      [] stage = "has_text" ->
            IF req.url # "" THEN {NoExc, NoContent}
            ELSE IF req.text.blank THEN {NoContent} ELSE {NoExc}
      [] stage \in {"ai", "gather_ai"} ->
            {NoExc, Exc("RuntimeError", "ai"), Exc("ValueError", "ai")}
      [] OTHER -> {NoExc, Exc("RuntimeError", "parse")}

\* calls a step makes: fetch_html calls, extractions, AI calls
StageCalls(stage) ==
    CASE stage = "fetch_html" -> [fetches |-> 1, extractions |-> 0, ai |-> 0]
      [] stage = "gather_fetch" -> [fetches |-> 2, extractions |-> 0, ai |-> 0]
      [] stage \in {"extract_content", "extract_seo_metadata"} ->
            [fetches |-> 0, extractions |-> 1, ai |-> 0]
      [] stage = "ai" -> [fetches |-> 0, extractions |-> 0, ai |-> 1]
      [] stage = "gather_ai" -> [fetches |-> 0, extractions |-> 0, ai |-> 3]
      [] OTHER -> [fetches |-> 0, extractions |-> 0, ai |-> 0]

\* no response body
NoData == [cached |-> FALSE, data |-> None]

\* no call of the cache
NoLookup == [prefix |-> "", key_data |-> "", value |-> None]

\* The request an endpoint is serving: the body, the next step of the try
\* block, the calls made so far, the get_cached and set_cached calls with
\* their arguments and (for get_cached) answer, and the response body.
Serving(req) ==
    [req |-> req, stage |-> 1, fetches |-> 0, extractions |-> 0, ai |-> 0,
     gets |-> 0, sets |-> 0, looked |-> NoLookup, stored |-> NoLookup,
     response |-> NoData]

\* no request is being served
NotServing == Serving(NoRequest)

cached_hit_never(cached) == FALSE

\* `if cached:`
cached_hit(cached) == bool(cached)

\* what an HTTPException raised inside the route reaches the client as
Reraised(e) == HTTPException(e.status, e.msg, "", 0)

----------------------------------------------------------------------------
(* extract_content (app/services/scraper.py): the truncation of the body  *)
(* text and of the markdown rendering.  A text is a sequence of           *)
(* characters; what trafilatura and the fallback extractor return for the *)
(* page are inputs.                                                       *)

\* longest text an extractor returns
MaxTextLen == 5

TextChars == {"a", "."}

Texts == UNION {[1..n -> TextChars] : n \in 0..MaxTextLen}

\* values of settings.max_content_length (MAX_CONTENT_LENGTH in the
\* environment; 50000 when it is not set)
ContentCaps == {2, 3}

\* no call has been made, nothing has been returned
NoArgs == [fn |-> "none"]
NoReturn == [fn |-> "none"]

TruncateUnmarked(s, cap) ==
    IF Len(s) > cap THEN SubSeq(s, 1, cap) ELSE s

\* `if len(text) > cap: text = text[:cap] + "..."`
Truncate(s, cap) ==
    IF Len(s) > cap THEN SubSeq(s, 1, cap) \o <<".", ".", ".">> ELSE s

\* most img and a tags on a page, but for the long pages
MaxRefs == 3

\* `images[:50]`, `links[:100]`
MaxImages == 50
MaxLinks == 100

\* A URL is [scheme, host, path], the path being the number of a file on
\* the host.  A reference (the src of an img, the href of an a) is
\* [kind, scheme, host, path]: "abs" is a URL with a scheme, "net" the
\* form //host/path, "path" the form /path and "empty" the empty text.
AbsRef(scheme, host, path) ==
    [kind |-> "abs", scheme |-> scheme, host |-> host, path |-> path]
NetRef(host, path) ==
    [kind |-> "net", scheme |-> "", host |-> host, path |-> path]
PathRef(path) ==
    [kind |-> "path", scheme |-> "", host |-> "", path |-> path]
EmptyRef == [kind |-> "empty", scheme |-> "", host |-> "", path |-> 0]

\* urllib.parse.urljoin(base, ref) for an absolute base
urljoin(base, ref) ==
    CASE ref.kind = "empty" -> base
      [] ref.kind = "abs" ->
            [scheme |-> ref.scheme, host |-> ref.host, path |-> ref.path]
      [] ref.kind = "net" ->
            [scheme |-> base.scheme, host |-> ref.host, path |-> ref.path]
      [] OTHER ->
            [scheme |-> base.scheme, host |-> base.host, path |-> ref.path]

AnyNew(found, u) == TRUE

\* `u not in found`
IsNew(found, u) == \A i \in 1..Len(found) : found[i] # u

\* the loop over the img tags that have a src, in document order
RECURSIVE CollectImages(_, _, _)
CollectImages(base, refs, found) ==
    IF refs = <<>> THEN found
    ELSE IF IsNew(found, urljoin(base, Head(refs)))
    THEN CollectImages(base, Tail(refs),
                       Append(found, urljoin(base, Head(refs))))
    ELSE CollectImages(base, Tail(refs), found)

\* the loop over the a tags that have an href, in document order
RECURSIVE CollectLinks(_, _, _)
CollectLinks(base, refs, found) ==
    IF refs = <<>> THEN found
    ELSE IF /\ urljoin(base, Head(refs)).scheme \in {"http", "https"}
            /\ IsNew(found, urljoin(base, Head(refs)))
    THEN CollectLinks(base, Tail(refs),
                      Append(found, urljoin(base, Head(refs))))
    ELSE CollectLinks(base, Tail(refs), found)

\* s[:n]
Slice(s, n) == SubSeq(s, 1, Min(n, Len(s)))

\* extract_content(html, url, include_images, include_links,
\* output_format), from the main-content extraction on: a.extracted is
\* what trafilatura.extract returns for the page ("" for None),
\* a.fallback what _fallback_extract returns, a.md what
\* trafilatura.extract returns in markdown mode, a.cap the content cap,
\* a.imgs the src of the img tags and a.anchors the href of the a tags in
\* document order.  markdown is None unless markdown output was asked for
\* and produced.
extract_content(a) ==
    LET text == IF a.extracted # <<>> THEN a.extracted ELSE a.fallback
        has_markdown == a.output_format = "markdown" /\ a.md # <<>>
        images == IF a.include_images
                  THEN CollectImages(a.url, a.imgs, <<>>) ELSE <<>>
        links == IF a.include_links
                 THEN CollectLinks(a.url, a.anchors, <<>>) ELSE <<>>
    IN  [fn |-> "extract_content",
         text |-> Truncate(text, a.cap),
         has_markdown |-> has_markdown,
         markdown |-> IF has_markdown THEN Truncate(a.md, a.cap) ELSE <<>>,
         images |-> Slice(images, MaxImages),
         links |-> Slice(links, MaxLinks)]

\* the URLs of the pages
PageUrls ==
    {[scheme |-> "https", host |-> "example.com", path |-> 0],
     [scheme |-> "http", host |-> "example.org", path |-> 1]}

\* the references on the short pages
Refs ==
    {AbsRef("https", "example.com", 1), AbsRef("mailto", "", 1),
     NetRef("example.com", 1), PathRef(1), PathRef(2), EmptyRef}

RefLists(n) == UNION {[1..k -> Refs] : k \in 0..n}

\* a page of n + 2 references to n files, the first file referred to
\* three times in a row
LongRefList(n) ==
    <<PathRef(1), PathRef(1)>> \o [i \in 1..n |-> PathRef(i)]

\* the img and a tags of a page: a short page with up to MaxRefs tags of
\* one kind and at most one of the other, or a long page with more
\* files than either limit
PageRefs ==
    {[imgs |-> s, anchors |-> t] :
        s \in RefLists(MaxRefs), t \in RefLists(1)}
    \cup {[imgs |-> t, anchors |-> s] :
        s \in RefLists(MaxRefs), t \in RefLists(1)}
    \cup {[imgs |-> LongRefList(MaxLinks + 1),
           anchors |-> <<AbsRef("mailto", "", 1)>>
                         \o LongRefList(MaxLinks + 1)]}

\* the pages and settings extract_content is called with: any texts on a
\* page without img and a tags
TextInput(e, f, m, o, c) ==
    [fn |-> "extract_content", extracted |-> e, fallback |-> f, md |-> m,
     output_format |-> o, cap |-> c,
     url |-> [scheme |-> "https", host |-> "example.com", path |-> 0],
     include_images |-> FALSE, include_links |-> FALSE,
     imgs |-> <<>>, anchors |-> <<>>]

\* and any img and a tags on a page of one text
PageInput(u, ii, il, p) ==
    [fn |-> "extract_content", extracted |-> <<"a">>, fallback |-> <<>>,
     md |-> <<>>, output_format |-> "text", cap |-> 3,
     url |-> u, include_images |-> ii, include_links |-> il,
     imgs |-> p.imgs, anchors |-> p.anchors]

----------------------------------------------------------------------------
(* _extract_schema_markup (app/services/scraper.py): the JSON-LD blocks of *)
(* a page.  What json.loads makes of a block is a record: a dict with its  *)
(* "@type" and the rest of its content (id), a list of items, a scalar, or *)
(* "malformed" for a block json.loads rejects.                             *)

\* most JSON-LD blocks on a page
MaxScripts == 3

\* `data[:10]`
MaxSchemaItems == 10

\* the value under "@type": a string, a list of one string, null, or no
\* such key
TypeStr(v) == [kind |-> "str", v |-> v]
TypeList(v) == [kind |-> "list", v |-> v]
TypeNull == [kind |-> "null", v |-> ""]
TypeAbsent == [kind |-> "absent", v |-> ""]

JsonDict(type, id) == [kind |-> "dict", type |-> type, id |-> id, items |-> <<>>]
JsonList(items) == [kind |-> "list", type |-> TypeAbsent, id |-> 0, items |-> items]
JsonScalar == [kind |-> "scalar", type |-> TypeAbsent, id |-> 0, items |-> <<>>]
Malformed == [kind |-> "malformed", type |-> TypeAbsent, id |-> 0, items |-> <<>>]

\* `t = d.get("@type", "Unknown")` and `t if isinstance(t, str) else
\* str(t)`
type_tag(d) ==
    CASE d.type.kind = "absent" -> "Unknown"
      [] d.type.kind = "str" -> d.type.v
      [] d.type.kind = "null" -> "None"
      [] OTHER -> "['" \o d.type.v \o "']"

\* the inner loop over the items of a top-level array
RECURSIVE SchemaItems(_, _)
SchemaItems(items, found) ==
    IF items = <<>> THEN found
    ELSE IF Head(items).kind = "dict"
    THEN SchemaItems(Tail(items),
            [types |-> Append(found.types, type_tag(Head(items))),
             data |-> Append(found.data, Head(items))])
    ELSE SchemaItems(Tail(items), found)

\* the loop over the application/ld+json scripts
RECURSIVE SchemaScripts(_, _)
SchemaScripts(scripts, found) ==
    IF scripts = <<>> THEN found
    ELSE LET parsed == Head(scripts)
         IN  CASE parsed.kind = "dict" ->
                    SchemaScripts(Tail(scripts),
                       [types |-> Append(found.types, type_tag(parsed)),
                        data |-> Append(found.data, parsed)])
               [] parsed.kind = "list" ->
                    SchemaScripts(Tail(scripts),
                                  SchemaItems(parsed.items, found))
               [] OTHER -> SchemaScripts(Tail(scripts), found)

\* `SchemaMarkup(types=types, data=data[:10])`
SchemaMarkup(types, data) ==
    [types |-> types, data |-> Slice(data, MaxSchemaItems)]

_extract_schema_markup(scripts) ==
    LET found == SchemaScripts(scripts, [types |-> <<>>, data |-> <<>>])
    IN  SchemaMarkup(found.types, found.data)

\* extract_seo_metadata(html, url), as far as the schema.org entries go
extract_seo_metadata(a) ==
    [fn |-> "extract_seo_metadata",
     schema_markup |-> _extract_schema_markup(a.scripts)]

\* the JSON-LD blocks of the pages: single objects, arrays (one of them
\* with more objects than the limit, one with an item that is no
\* object), a scalar and a malformed block
JsonBlocks ==
    {JsonDict(TypeStr("Article"), 1), JsonDict(TypeAbsent, 2),
     JsonDict(TypeList("Person"), 3), JsonDict(TypeNull, 4),
     JsonList(<<JsonDict(TypeStr("Article"), 5), JsonScalar,
                JsonDict(TypeStr("Person"), 6)>>),
     JsonList([i \in 1..(MaxSchemaItems - 1) |->
                  JsonDict(TypeStr("Organization"), 10 + i)]),
     JsonScalar, Malformed}

SeoInputs ==
    {[fn |-> "extract_seo_metadata", scripts |-> s] :
        s \in UNION {[1..n -> JsonBlocks] : n \in 0..MaxScripts}}

----------------------------------------------------------------------------
(* compute_content_quality_score (app/services/text_analytics.py).  A     *)
(* Flesch Reading Ease score, which compute_readability rounds to one     *)
(* decimal, is held in tenths: 655 is 65.5.                               *)

\* most images on a page
MaxPageImages == 3

\* Python's round(n / d) for d > 0 and n >= 0: to the nearest integer,
\* a tie to the even one
round_div(n, d) ==
    LET q == n \div d
        r == n % d
    IN  IF 2 * r > d \/ (2 * r = d /\ q % 2 = 1) THEN q + 1 ELSE q

\* `if cond: recommendations.append(msg)`
AppendIf(cond, recommendations, msg) ==
    IF cond THEN Append(recommendations, msg) ELSE recommendations

content_depth(word_count) ==
    CASE word_count >= 2000 -> 30
      [] word_count >= 1000 -> 25
      [] word_count >= 500 -> 20
      [] word_count >= 300 -> 15
      [] word_count >= 100 -> 8
      [] OTHER -> 3

readability_score(flesch) ==
    IF flesch > 900 THEN 12
    ELSE CASE 500 <= flesch /\ flesch <= 800 -> 20
           [] 400 <= flesch /\ flesch <= 900 -> 15
           [] 300 <= flesch -> 10
           [] OTHER -> 5

structure_score(h1_count, h2_count, sentence_count) ==
    (CASE h1_count = 1 -> 8 [] h1_count > 1 -> 4 [] OTHER -> 0)
    + (CASE h2_count >= 2 -> 8 [] h2_count = 1 -> 5 [] OTHER -> 0)
    + (IF sentence_count >= 5 THEN 4 ELSE 2)

alt_points_per_image(images_with_alt, total_images) == 7 * images_with_alt

\* `round(7 * alt_ratio)`
alt_points(images_with_alt, total_images) ==
    round_div(7 * images_with_alt, total_images)

media_score(total_images, images_without_alt) ==
    IF total_images > 0
    THEN 8 + alt_points(total_images - images_without_alt, total_images)
    ELSE 0

seo_score(a) ==
    (IF a.has_meta_description THEN 5 ELSE 0)
    + (IF a.has_canonical THEN 3 ELSE 0)
    + (IF a.has_open_graph THEN 4 ELSE 0)
    + (IF a.has_schema_markup THEN 3 ELSE 0)

grade_label(total) ==
    CASE total >= 90 -> "A+"
      [] total >= 80 -> "A"
      [] total >= 70 -> "B"
      [] total >= 60 -> "C"
      [] total >= 50 -> "D"
      [] OTHER -> "F"

\* the recommendations in the order the code appends them
quality_recommendations(a) ==
    LET r1 == AppendIf(a.word_count < 100, <<>>,
                "Content is very thin. Aim for 500+ words for better engagement.")
        r2 == AppendIf(a.word_count < 300, r1,
                "Articles under 300 words typically rank poorly in search engines.")
        r3 == AppendIf(a.flesch_reading_ease < 300, r2,
                "Content is very difficult to read. Simplify sentences and vocabulary.")
        r4 == AppendIf(a.flesch_reading_ease > 900, r3,
                "Content may be too simplistic for a professional audience.")
        r5 == AppendIf(a.h1_count > 1, r4,
                "Multiple H1 tags detected. Use exactly one H1 per page.")
        r6 == AppendIf(a.h1_count < 1, r5,
                "Missing H1 tag. Every page should have a single H1 heading.")
        r7 == AppendIf(a.h2_count < 1, r6,
                "Add H2 subheadings to break up content and improve scannability.")
        r8 == AppendIf(a.total_images > 0 /\ a.images_without_alt > 0, r7,
                ToString(a.images_without_alt)
                  \o " image(s) missing alt text. Add descriptive alt attributes.")
        r9 == AppendIf(a.total_images <= 0, r8,
                "No images found. Adding relevant images improves engagement and SEO.")
        r10 == AppendIf(~a.has_meta_description, r9,
                "Missing meta description. Add one for better search engine snippets.")
        r11 == AppendIf(~a.has_open_graph, r10,
                "Missing Open Graph tags. Add them for better social media sharing.")
    IN  AppendIf(~a.has_schema_markup, r11,
                "No Schema.org markup found. Add structured data for rich search results.")

\* `recommendations[:8]`
MaxRecommendations == 8

compute_content_quality_score(a) ==
    LET scores ==
          [content_depth |-> content_depth(a.word_count),
           readability |-> readability_score(a.flesch_reading_ease),
           structure |-> structure_score(a.h1_count, a.h2_count,
                                         a.sentence_count),
           media |-> media_score(a.total_images, a.images_without_alt),
           seo_signals |-> seo_score(a)]
        total == scores.content_depth + scores.readability + scores.structure
                   + scores.media + scores.seo_signals
    IN  [fn |-> "compute_content_quality_score",
         total_score |-> total,
         grade |-> grade_label(total),
         breakdown |-> scores,
         max_scores |-> [content_depth |-> 30, readability |-> 20,
                         structure |-> 20, media |-> 15, seo_signals |-> 15],
         recommendations |->
             Slice(quality_recommendations(a), MaxRecommendations)]

\* the measurements of a page that analyze_endpoint passes on: counts are
\* not negative, the images without alt text are among the images
\* (ImageCounts), and the Flesch score is between 0 and 100
QualityInput(w, s, f, h1, h2, im, b) ==
    [fn |-> "compute_content_quality_score", word_count |-> w,
     sentence_count |-> s, flesch_reading_ease |-> f, h1_count |-> h1,
     h2_count |-> h2, total_images |-> im[1], images_without_alt |-> im[2],
     has_meta_description |-> b[1], has_canonical |-> b[2],
     has_open_graph |-> b[3], has_schema_markup |-> b[4]]

WordCounts == {50, 100, 299, 300, 500, 1000, 2000}
FleschScores == {0, 299, 300, 400, 500, 800, 900, 901, 1000}
ImageCounts ==
    {p \in (0..MaxPageImages) \X (0..MaxPageImages) : p[2] <= p[1]}

----------------------------------------------------------------------------
(* compute_readability (app/services/text_analytics.py).  A text is a     *)
(* sequence of characters.  The scores the code rounds to n decimals are  *)
(* held as integers in units of 10^-n: a Flesch Reading Ease of 65.5 is   *)
(* 655, a vocabulary density of 0.25 is 250.                              *)

\* longest of the short texts
MaxChars == 3

Letters ==
    {LowerLetters[i] : i \in 1..26} \cup {UpperLetters[i] : i \in 1..26}

\* the characters of the texts
TextAlphabet == Letters \cup {" ", ".", "!", "?", "1", ","}

\* the numbers of a set in rising order
RECURSIVE Ascending(_)
Ascending(S) ==
    IF S = {} THEN <<>>
    ELSE LET least == CHOOSE i \in S : \A j \in S : i <= j
         IN  <<least>> \o Ascending(S \ {least})

\* the maximal runs of characters of S in a text, in order
Runs(text, S) ==
    LET starts == Ascending({i \in 1..Len(text) :
                                /\ text[i] \in S
                                /\ i > 1 => text[i - 1] \notin S})
        ends == Ascending({i \in 1..Len(text) :
                              /\ text[i] \in S
                              /\ i < Len(text) => text[i + 1] \notin S})
    IN  [k \in 1..Len(starts) |-> SubSeq(text, starts[k], ends[k])]

\* re.findall(r"[a-zA-Z]+", text)
_get_words(text) == Runs(text, Letters)

\* re.split(r"[.!?]+", text), counting the pieces that are not blank
_count_sentences(text) ==
    LET pieces == Runs(text, TextAlphabet \ {".", "!", "?"})
    IN  Cardinality({i \in 1..Len(pieces) :
                        \E j \in 1..Len(pieces[i]) : pieces[i][j] # " "})

_count_syllables(word) ==
    LET w == lower(word)
        stem == IF w[Len(w)] = "e" THEN SubSeq(w, 1, Len(w) - 1) ELSE w
    IN  IF w = <<>> THEN 0
        ELSE IF Len(w) <= 3 THEN 1
        ELSE Max(1, Len(Runs(stem, {"a", "e", "i", "o", "u", "y"})))

\* sum(ns)
RECURSIVE sum(_)
sum(ns) == IF ns = <<>> THEN 0 ELSE Head(ns) + sum(Tail(ns))

\* Python's round(n / d) for d > 0
round_ratio(n, d) == IF n >= 0 THEN round_div(n, d) ELSE 0 - round_div(0 - n, d)

\* the label of a Flesch Reading Ease score (in tenths)
_reading_level_label(score) ==
    CASE score >= 900 -> "Very Easy (5th grade)"
      [] score >= 800 -> "Easy (6th grade)"
      [] score >= 700 -> "Fairly Easy (7th grade)"
      [] score >= 600 -> "Standard (8th-9th grade)"
      [] score >= 500 -> "Fairly Difficult (10th-12th grade)"
      [] score >= 300 -> "Difficult (College)"
      [] OTHER -> "Very Difficult (Graduate)"

TooShortBelowNine(word_count) == word_count < 9

\* `if word_count < 10`
TooShort(word_count) == word_count < 10

compute_readability(text) ==
    LET words == _get_words(text)
        word_count == Len(words)
        sentence_count == Max(_count_sentences(text), 1)
        char_count == sum([i \in 1..Len(words) |-> Len(words[i])])
        syllable_count ==
            sum([i \in 1..Len(words) |-> _count_syllables(words[i])])
        unique_words == Cardinality({lower(words[i]) : i \in 1..Len(words)})
        wc == Max(word_count, 1)
        per == sentence_count * wc
        fre == Max(0, Min(1000,
                 round_ratio(206835 * per - 1015 * wc * wc
                                - 84600 * syllable_count * sentence_count,
                             100 * per)))
        fkgl == Max(0, round_ratio(390 * wc * wc
                                     + 11800 * syllable_count * sentence_count
                                     - 15590 * per, 100 * per))
        cli == Max(0, round_ratio(5880 * char_count - 29600 * sentence_count
                                    - 15800 * wc, 100 * wc))
        ari == Max(0, round_ratio(4710 * char_count * sentence_count
                                    + 500 * wc * wc - 21430 * per, 100 * per))
        complex_word_count ==
            Cardinality({i \in 1..Len(words) : _count_syllables(words[i]) >= 3})
    IN  IF TooShort(word_count)
        THEN [fn |-> "compute_readability", divided |-> FALSE,
              flesch_reading_ease |-> 0, flesch_kincaid_grade |-> 0,
              coleman_liau_index |-> 0, automated_readability_index |-> 0,
              avg_grade_level |-> 0, reading_level |-> "Too short to analyze",
              sentence_count |-> sentence_count, word_count |-> word_count,
              syllable_count |-> syllable_count, char_count |-> char_count,
              avg_sentence_length |-> 0, avg_word_length |-> 0,
              avg_syllables_per_word |-> 0, unique_words |-> unique_words,
              vocabulary_density |-> 0, complex_word_count |-> 0,
              complex_word_pct |-> 0, reading_time_seconds |-> 0,
              reading_time_minutes |-> 0]
        ELSE [fn |-> "compute_readability", divided |-> TRUE,
              flesch_reading_ease |-> fre, flesch_kincaid_grade |-> fkgl,
              coleman_liau_index |-> cli, automated_readability_index |-> ari,
              avg_grade_level |-> round_div(fkgl + cli + ari, 3),
              reading_level |-> _reading_level_label(fre),
              sentence_count |-> sentence_count, word_count |-> word_count,
              syllable_count |-> syllable_count, char_count |-> char_count,
              avg_sentence_length |-> round_div(10 * word_count, sentence_count),
              avg_word_length |-> round_div(10 * char_count, word_count),
              avg_syllables_per_word |->
                  round_div(100 * syllable_count, word_count),
              unique_words |-> unique_words,
              vocabulary_density |-> round_div(1000 * unique_words, word_count),
              complex_word_count |-> complex_word_count,
              complex_word_pct |->
                  round_div(1000 * complex_word_count, word_count),
              reading_time_seconds |-> round_div(60 * word_count, 238),
              reading_time_minutes |-> round_div(10 * word_count, 238)]

\* n copies of a text, one after the other
RECURSIVE Repeat(_, _)
Repeat(unit, n) == IF n = 0 THEN <<>> ELSE unit \o Repeat(unit, n - 1)

\* the texts compute_readability is called with: every short text over a
\* few characters
ShortTexts ==
    UNION {[1..n -> {"a", "e", "B", " ", ".", "1"}] : n \in 0..MaxChars}

\* and texts of 8 to 12 words
LongTexts ==
    {head \o Repeat(unit, n) :
        head \in {<<>>, <<"t", "a", "b", "l", "e", ".", " ">>,
                  <<"B", "a", "n", "a", "n", "a", ",", " ">>},
        unit \in {<<"a", " ">>, <<"a", "1">>, <<"B", "e", "!", "?", " ">>,
                  <<"i", "d", "e", "a", "s", ".">>},
        n \in 8..11}

----------------------------------------------------------------------------
(* compute_similarity (app/services/text_analytics.py).  A word is the    *)
(* sequence of its characters; a Counter is the sequence of its entries   *)
(* [word, count] in the order of first occurrence.  The similarity score, *)
(* which the code rounds to 4 decimals, is held in units of 10^-4: 10000  *)
(* is 1.0.                                                                *)

\* most words in a short text
MaxWords == 3

\* collections.Counter(words)
Counter(words) ==
    LET firsts == Ascending({i \in 1..Len(words) :
                                \A j \in 1..(i - 1) : words[j] # words[i]})
    IN  [k \in 1..Len(firsts) |->
            [word |-> words[firsts[k]],
             count |-> Cardinality({j \in 1..Len(words) :
                                       words[j] = words[firsts[k]]})]]

\* freq.get(word, 0)
CountOf(freq, word) ==
    IF \E i \in 1..Len(freq) : freq[i].word = word
    THEN freq[CHOOSE i \in 1..Len(freq) : freq[i].word = word].count
    ELSE 0

\* freq.most_common(n): by falling count, entries of equal count in the
\* order of first occurrence
most_common(freq, n) ==
    LET place == [i \in 1..Len(freq) |->
                    1 + Cardinality({j \in 1..Len(freq) :
                          \/ freq[j].count > freq[i].count
                          \/ freq[j].count = freq[i].count /\ j < i})]
    IN  Slice([k \in 1..Len(freq) |->
                  freq[CHOOSE i \in 1..Len(freq) : place[i] = k]], n)

stopwords ==
    {<<"t", "h", "e">>, <<"a">>, <<"a", "n">>, <<"i", "s">>,
     <<"a", "r", "e">>, <<"w", "a", "s">>, <<"w", "e", "r", "e">>,
     <<"b", "e">>, <<"b", "e", "e", "n">>, <<"b", "e", "i", "n", "g">>,
     <<"h", "a", "v", "e">>, <<"h", "a", "s">>, <<"h", "a", "d">>,
     <<"d", "o">>, <<"d", "o", "e", "s">>, <<"d", "i", "d">>,
     <<"w", "i", "l", "l">>, <<"w", "o", "u", "l", "d">>,
     <<"c", "o", "u", "l", "d">>, <<"s", "h", "o", "u", "l", "d">>,
     <<"m", "a", "y">>, <<"m", "i", "g", "h", "t">>,
     <<"s", "h", "a", "l", "l">>, <<"c", "a", "n">>, <<"t", "o">>,
     <<"o", "f">>, <<"i", "n">>, <<"f", "o", "r">>, <<"o", "n">>,
     <<"w", "i", "t", "h">>, <<"a", "t">>, <<"b", "y">>,
     <<"f", "r", "o", "m">>, <<"a", "s">>, <<"i", "n", "t", "o">>,
     <<"t", "h", "r", "o", "u", "g", "h">>, <<"d", "u", "r", "i", "n", "g">>,
     <<"b", "e", "f", "o", "r", "e">>, <<"a", "f", "t", "e", "r">>,
     <<"a", "b", "o", "v", "e">>, <<"b", "e", "l", "o", "w">>,
     <<"b", "e", "t", "w", "e", "e", "n">>, <<"o", "u", "t">>,
     <<"o", "f", "f">>, <<"o", "v", "e", "r">>, <<"u", "n", "d", "e", "r">>,
     <<"a", "g", "a", "i", "n">>, <<"f", "u", "r", "t", "h", "e", "r">>,
     <<"t", "h", "e", "n">>, <<"o", "n", "c", "e">>, <<"t", "h", "a", "t">>,
     <<"t", "h", "i", "s">>, <<"t", "h", "e", "s", "e">>,
     <<"t", "h", "o", "s", "e">>, <<"i", "t">>, <<"i", "t", "s">>,
     <<"h", "e">>, <<"s", "h", "e">>, <<"t", "h", "e", "y">>,
     <<"t", "h", "e", "m">>, <<"h", "i", "s">>, <<"h", "e", "r">>,
     <<"t", "h", "e", "i", "r">>, <<"m", "y">>, <<"y", "o", "u", "r">>,
     <<"o", "u", "r">>, <<"w", "h", "o">>, <<"w", "h", "i", "c", "h">>,
     <<"w", "h", "a", "t">>, <<"w", "h", "e", "r", "e">>,
     <<"w", "h", "e", "n">>, <<"h", "o", "w">>, <<"a", "l", "l">>,
     <<"e", "a", "c", "h">>, <<"e", "v", "e", "r", "y">>,
     <<"b", "o", "t", "h">>, <<"f", "e", "w">>, <<"m", "o", "r", "e">>,
     <<"m", "o", "s", "t">>, <<"o", "t", "h", "e", "r">>,
     <<"s", "o", "m", "e">>, <<"s", "u", "c", "h">>, <<"n", "o">>,
     <<"n", "o", "t">>, <<"o", "n", "l", "y">>, <<"t", "h", "a", "n">>,
     <<"t", "o", "o">>, <<"v", "e", "r", "y">>, <<"j", "u", "s", "t">>,
     <<"b", "u", "t">>, <<"a", "n", "d">>, <<"o", "r">>, <<"i", "f">>,
     <<"s", "o">>, <<"a", "b", "o", "u", "t">>, <<"u", "p">>,
     <<"a", "l", "s", "o">>, <<"w", "e", "l", "l">>}

\* `w not in stopwords and len(w) > 2`
is_keyword(entry) == entry.word \notin stopwords /\ Len(entry.word) > 2

top_keywords(freq, n) ==
    LET kept == Slice(SelectSeq(most_common(freq, n * 3), is_keyword), n)
    IN  {kept[i].word : i \in 1..Len(kept)}

\* the order of str: by code point, the capital letters first
CodePoint(c) ==
    CHOOSE i \in 1..52 : (UpperLetters \o LowerLetters)[i] = c

str_less(a, b) ==
    \/ \E i \in 1..Min(Len(a), Len(b)) :
          /\ \A j \in 1..(i - 1) : a[j] = b[j]
          /\ CodePoint(a[i]) < CodePoint(b[i])
    \/ Len(a) < Len(b) /\ a = SubSeq(b, 1, Len(a))

\* sorted(S) for a set of words
sorted(S) ==
    LET place == [w \in S |-> 1 + Cardinality({v \in S : str_less(v, w)})]
    IN  [k \in 1..Cardinality(S) |-> CHOOSE w \in S : place[w] = k]

\* whether n2 * q is below (-1), equal to (0) or above (1) p * 10^8, in
\* two limbs of base 10^4
CompareScaled(n2, q, p) ==
    LET low == (n2 % 10000) * q
        high == (n2 \div 10000) * q + low \div 10000
    IN  CASE high < 10000 * p -> 0 - 1
          [] high > 10000 * p -> 1
          [] low % 10000 > 0 -> 1
          [] OTHER -> 0

\* round(dot / (sqrt(s1) * sqrt(s2)), 4) in units of 10^-4: the least k
\* for which the quotient is below k + 1/2, or equal to it with k even
RECURSIVE round4_between(_, _, _, _)
round4_between(lo, hi, dot, q) ==
    IF lo = hi THEN lo
    ELSE LET k == (lo + hi) \div 2
             c == CompareScaled((2 * k + 1) * (2 * k + 1), q, 4 * dot * dot)
         IN  IF c > 0 \/ (c = 0 /\ k % 2 = 0)
             THEN round4_between(lo, k, dot, q)
             ELSE round4_between(k + 1, hi, dot, q)

round4_cosine(dot, s1, s2) == round4_between(0, 10000, dot, s1 * s2)

keep_all(a, b) == a

\* kw1 - kw2
only_in(a, b) == a \ b

compute_similarity(text1, text2) ==
    LET words1 == _get_words(text1)
        words2 == _get_words(text2)
        freq1 == Counter(words1)
        freq2 == Counter(words2)
        dot_product ==
            sum([i \in 1..Len(freq1) |->
                    freq1[i].count * CountOf(freq2, freq1[i].word)])
        squares1 == sum([i \in 1..Len(freq1) |-> freq1[i].count * freq1[i].count])
        squares2 == sum([i \in 1..Len(freq2) |-> freq2[i].count * freq2[i].count])
        kw1 == top_keywords(freq1, 20)
        kw2 == top_keywords(freq2, 20)
    IN  IF words1 = <<>> \/ words2 = <<>>
        THEN [fn |-> "compute_similarity", similarity_score |-> 0,
              shared_keywords |-> <<>>, unique_to_text1 |-> <<>>,
              unique_to_text2 |-> <<>>]
        ELSE [fn |-> "compute_similarity",
              similarity_score |-> round4_cosine(dot_product, squares1, squares2),
              shared_keywords |-> Slice(sorted(kw1 \cap kw2), 20),
              unique_to_text1 |-> Slice(sorted(only_in(kw1, kw2)), 20),
              unique_to_text2 |-> Slice(sorted(only_in(kw2, kw1)), 20)]

\* the words of the short texts: two keywords, a stopword and a word of
\* two letters
Vocabulary ==
    {<<"c", "a", "t">>, <<"d", "o", "g">>, <<"t", "h", "e">>, <<"a", "n">>}

\* the words of a list, each followed by a blank
RECURSIVE Spaced(_)
Spaced(words) ==
    IF words = <<>> THEN <<>>
    ELSE Head(words) \o <<" ">> \o Spaced(Tail(words))

\* n distinct keywords that begin with c: cax cbx ccx ...
KeywordText(n, c) ==
    [i \in 1..(4 * n) |->
        CASE i % 4 = 1 -> c
          [] i % 4 = 2 -> LowerLetters[(i + 2) \div 4]
          [] i % 4 = 3 -> "x"
          [] OTHER -> " "]

\* n distinct words of two letters, aa ab ac ..., and then the word cat
ShortWordsText(n) ==
    [i \in 1..(3 * n) |->
        CASE i % 3 = 1 -> LowerLetters[(((i - 1) \div 3) \div 26) + 1]
          [] i % 3 = 2 -> LowerLetters[(((i - 1) \div 3) % 26) + 1]
          [] OTHER -> " "]
    \o <<"c", "a", "t">>

\* the texts compute_similarity is called with: the texts of up to
\* MaxWords words and a text without a letter
SimilarityTexts ==
    {Spaced(ws) : ws \in UNION {[1..n -> Vocabulary] : n \in 0..MaxWords}}
    \cup {<<"1", "2", "3">>}

\* and, with each other and with three of the former, texts with more
\* keywords than are returned and a text whose keyword is not among its
\* 60 most common words
LongSimilarityTexts ==
    {KeywordText(21, "k"), KeywordText(21, "m"), ShortWordsText(60),
     <<>>, <<"1", "2", "3">>, <<"d", "o", "g", " ">>}

----------------------------------------------------------------------------
(* The key material of the cached endpoints (app/routes/v1.py): the       *)
(* request bodies that pass validation                                    *)

\* a raw text of more than 200 characters: `head` is its first 200
\* characters, as (request.text or "")[:200] cuts them, `tail` the rest
LongHead ==
    "The battery lasts two days, the screen is bright, the case is " \o
    "solid metal, the camera is quick in daylight and slow at night, " \o
    "and the speakers are clear; after a month of use, my verdict on it is:"
LongText(tail) == [head |-> LongHead, tail |-> tail, blank |-> FALSE]

\* a raw text that reads like a URL
UrlText == [head |-> "http://example.com/", tail |-> "", blank |-> FALSE]

RawTexts ==
    {NoText, ShortText, UrlText, LongText(" I recommend it."),
     LongText(" I sent it back.")}

RequestUrls == {"http://example.com/", "http://example.org/"}

\* what an f-string makes of a bool
BoolTexts == {"False", "True"}

\* the bodies each endpoint accepts and looks up in the cache: the fields
\* of its request model (app/models.py), and for /summarize and /sentiment
\* a url or a text
RequestBodies(endpoint) ==
    CASE endpoint = "extract" ->
            {[Request("extract", u, "", NoText)
                 EXCEPT !.include_images = ii, !.include_links = il,
                        !.output_format = f] :
             u \in RequestUrls, ii \in BoolTexts, il \in BoolTexts,
             f \in {"text", "markdown"}}
      [] endpoint = "summarize" ->
            {r \in {[Request("summarize", u, "", t)
                        EXCEPT !.format = f, !.max_length = m,
                               !.language = l] :
                    u \in RequestUrls \cup {""}, t \in RawTexts,
                    f \in {"tldr", "paragraph"}, m \in {"200", "100"},
                    l \in {"en", "fr"}} : ~MissingInput(r)}
      [] endpoint = "sentiment" ->
            {r \in {Request("sentiment", u, "", t) :
                    u \in RequestUrls \cup {""}, t \in RawTexts} :
             ~MissingInput(r)}
      [] endpoint = "seo" ->
            {Request("seo", u, "", NoText) : u \in RequestUrls}
      [] endpoint = "analyze" ->
            {[Request("analyze", u, "", NoText)
                 EXCEPT !.format = f, !.max_length = m] :
             u \in RequestUrls, f \in {"tldr", "paragraph"},
             m \in {"200", "100"}}
      [] endpoint = "compare" ->
            {Request("compare", u1, u2, NoText) :
             u1 \in RequestUrls, u2 \in RequestUrls}

----------------------------------------------------------------------------
(* The state machine *)

Init ==
    /\ settings \in PatternLists
    /\ dns \in [DynamicNames -> DnsAnswers]
    /\ pc = "idle"
    /\ op = "none"
    /\ url = NoUrl
    /\ outcome = NoOutcome
    /\ cur = NoUrl
    /\ hops = 0
    /\ requests = 0
    /\ response = NoResponse
    /\ result = NoResult
    /\ exc = NoExc
    /\ http = NoHttp
    /\ CacheIdle
    /\ request = NotServing
    /\ args = NoArgs
    /\ returned = NoReturn

\* the environment changes what a name resolves to
DnsUpdate ==
    /\ \E n \in DynamicNames, a \in DnsAnswers :
          /\ dns[n] # a
          /\ dns' = [dns EXCEPT ![n] = a]
    /\ UNCHANGED <<settings, pc, op, url, outcome, cur, hops, requests,
                   response, result, exc, http>>
    /\ UNCHANGED cacheVars
    /\ UNCHANGED routeVars
    /\ UNCHANGED pageVars

\* a direct call validate_url(u)
ValidateUrl ==
    /\ pc = "idle"
    /\ \E u \in Urls :
          /\ url' = u
          /\ outcome' = validate_url(u, dns, settings)
    /\ op' = "validate_url"
    /\ pc' = "checked"
    /\ UNCHANGED <<settings, dns, cur, hops, requests, response, result,
                   exc, http>>
    /\ UNCHANGED cacheVars
    /\ UNCHANGED routeVars
    /\ UNCHANGED pageVars

\* a route calls fetch_html(u): validate_url(url) runs first; what it
\* raises propagates to the route's `except Exception`, which answers with
\* _handle_scrape_error(e, "extraction")
FetchHtml ==
    /\ pc = "idle"
    /\ \E u \in FetchUrls :
          LET o == validate_url(u, dns, settings) IN
          /\ url' = u
          /\ outcome' = o
          /\ IF o.exc = "none"
             THEN /\ pc' = "get"
                  /\ cur' = u
                  /\ UNCHANGED <<exc, http>>
             ELSE /\ pc' = "responded"
                  /\ exc' = Exc(o.exc, o.reason)
                  /\ http' = _handle_scrape_error(Exc(o.exc, o.reason),
                                                  "extraction")
                  /\ UNCHANGED cur
    /\ op' = "fetch_html"
    /\ UNCHANGED <<settings, dns, hops, requests, response, result>>
    /\ UNCHANGED cacheVars
    /\ UNCHANGED routeVars
    /\ UNCHANGED pageVars

FailThenRetry(e) ==
    /\ exc' = e
    /\ http' = _handle_scrape_error(e, "extraction")
    /\ pc' = "get"

\* the route's `except Exception as e: raise _handle_scrape_error(e, ...)`
Fail(e) ==
    /\ exc' = e
    /\ http' = _handle_scrape_error(e, "extraction")
    /\ pc' = "responded"

\* httpx sends the request for cur: it resolves the host and connects
SendRequest ==
    /\ pc = "get"
    /\ requests' = requests + 1
    /\ LET infos == getaddrinfo(LowerHost(cur.host), dns) IN
       IF infos.err = "none" /\ \E i \in 1..Len(infos.addrs) : infos.addrs[i].v # 0
       THEN /\ pc' = "inflight"
            /\ UNCHANGED <<exc, http>>
       ELSE Fail(Exc("ConnectError", "connect"))
    /\ UNCHANGED <<settings, dns, op, url, outcome, cur, hops, response,
                   result>>
    /\ UNCHANGED cacheVars
    /\ UNCHANGED routeVars
    /\ UNCHANGED pageVars

\* the request times out (connect or read timeout)
Timeout ==
    /\ pc = "inflight"
    /\ \E t \in {"ConnectTimeout", "ReadTimeout"} : Fail(Exc(t, "timeout"))
    /\ UNCHANGED <<settings, dns, op, url, outcome, cur, hops, requests,
                   response, result>>
    /\ UNCHANGED cacheVars
    /\ UNCHANGED routeVars
    /\ UNCHANGED pageVars

\* the connection fails
ConnectFail ==
    /\ pc = "inflight"
    /\ Fail(Exc("ConnectError", "connect"))
    /\ UNCHANGED <<settings, dns, op, url, outcome, cur, hops, requests,
                   response, result>>
    /\ UNCHANGED cacheVars
    /\ UNCHANGED routeVars
    /\ UNCHANGED pageVars

\* the server answers with a redirect: httpx follows it unless the history
\* would exceed max_redirects
Redirect ==
    /\ pc = "inflight"
    /\ \E target \in RedirectTargets :
          IF hops + 1 > MaxRedirects
          THEN /\ Fail(Exc("TooManyRedirects", "redirects"))
               /\ UNCHANGED <<cur, hops>>
          ELSE /\ hops' = hops + 1
               /\ cur' = target
               /\ pc' = "get"
               /\ UNCHANGED <<exc, http>>
    /\ UNCHANGED <<settings, dns, op, url, outcome, requests, response,
                   result>>
    /\ UNCHANGED cacheVars
    /\ UNCHANGED routeVars
    /\ UNCHANGED pageVars

\* the server answers with a final response: fetch_html runs to its end
Respond ==
    /\ pc = "inflight"
    /\ \E r \in Responses :
          /\ response' = r
          /\ IF AfterGet(r) = NoExc
             THEN /\ result' = [returned |-> TRUE, html |-> r.body,
                                final_url |-> cur]
                  /\ pc' = "returned"
                  /\ UNCHANGED <<exc, http>>
             ELSE /\ Fail(AfterGet(r))
                  /\ UNCHANGED result
    /\ UNCHANGED <<settings, dns, op, url, outcome, cur, hops, requests>>
    /\ UNCHANGED cacheVars
    /\ UNCHANGED routeVars
    /\ UNCHANGED pageVars

\* the route answers 200 with the page fetch_html returned
RouteOk ==
    /\ pc = "returned"
    /\ http' = HTTPException(200, "", "", 0)
    /\ pc' = "responded"
    /\ UNCHANGED <<settings, dns, op, url, outcome, cur, hops, requests,
                   response, result, exc>>
    /\ UNCHANGED cacheVars
    /\ UNCHANGED routeVars
    /\ UNCHANGED pageVars

\* the call is over; the next one starts from a clean slate
Finish ==
    /\ pc \in {"checked", "responded"}
    /\ pc' = "idle"
    /\ op' = "none"
    /\ url' = NoUrl
    /\ outcome' = NoOutcome
    /\ cur' = NoUrl
    /\ hops' = 0
    /\ requests' = 0
    /\ response' = NoResponse
    /\ result' = NoResult
    /\ exc' = NoExc
    /\ http' = NoHttp
    /\ UNCHANGED <<settings, dns>>
    /\ UNCHANGED cacheVars
    /\ UNCHANGED routeVars
    /\ UNCHANGED pageVars

Next ==
    \/ DnsUpdate
    \/ ValidateUrl
    \/ FetchHtml
    \/ SendRequest
    \/ Timeout
    \/ ConnectFail
    \/ Redirect
    \/ Respond
    \/ RouteOk
    \/ Finish

Spec == Init /\ [][Next]_vars

----------------------------------------------------------------------------
(* The result cache as a state machine: direct calls of get_cached and     *)
(* set_cached on one instance                                              *)

Prefixes == {"prefix_a", "prefix_b"}
KeyData == {"same-key", "other-key"}

\* (prefix, key_data) pairs
CallKeys == Prefixes \X KeyData

Payloads == {EmptyDict, Plain(1), Rich(1)}

\* the ttl argument of set_cached: 0 stands for None
Ttls == {0, 1}

\* The runs the model explores: callers that store every kind of payload,
\* with and without a ttl, under one key data in two namespaces; and
\* callers that store one payload under more keys than the local tier
\* holds.
Workloads == {
    [keys |-> Prefixes \X {"same-key"}, payloads |-> Payloads, ttls |-> Ttls,
     requests |-> {}],
    [keys |-> CallKeys, payloads |-> {Plain(1)}, ttls |-> {0},
     requests |-> {}] }

\* the clock advances; the shared tier forgets what has expired
Tick ==
    /\ now < MaxTime
    /\ now' = now + 1
    /\ redis' = {r \in redis : now' < r.expires}
    /\ UNCHANGED <<_memory_cache, _redis_available, tasks, active, callers,
                   used>>
    /\ UNCHANGED fetchVars
    /\ UNCHANGED routeVars
    /\ UNCHANGED pageVars

\* the keys of the local tier in the order `order`, with `key` last
Touch(order, cache, key) ==
    LET held == {cache[i].key : i \in 1..Len(cache)}
        rest == SelectSeq(order, LAMBDA k : k \in held /\ k # key)
    IN  IF key \in held THEN Append(rest, key) ELSE rest

\* a task calls get_cached(prefix, key_data)
GetCached(t) ==
    /\ t \in active
    /\ tasks[t].pc \in {"idle", "done"}
    /\ \E k \in callers.keys, o \in RedisOutcomes :
          \E r \in {get_cached(k[1], k[2], o, _memory_cache, redis,
                                _redis_available, now)},
             key \in {_cache_key(k[1], k[2])} :
              /\ ~_redis_available => o = "ok"
              /\ _memory_cache' = r.cache
              /\ tasks' = [tasks EXCEPT ![t] =
                     [NoCall EXCEPT !.op = "get_cached", !.prefix = k[1],
                                    !.key_data = k[2], !.pc = "done",
                                    !.at = now, !.ret = r.ret,
                                    !.failed = (o = "error"),
                                    !.warned = r.warned,
                                    !.raised = r.raised]]
              /\ used' = [calls |-> Touch(used.calls, r.cache, key),
                          local |-> IF _redis_available /\ o = "ok"
                                       /\ redis_get(redis, key, now).found
                                    THEN used.local
                                    ELSE Touch(used.local, r.cache, key)]
    /\ UNCHANGED <<now, _redis_available, redis, active, callers>>
    /\ UNCHANGED fetchVars
    /\ UNCHANGED routeVars
    /\ UNCHANGED pageVars

\* a task calls set_cached(prefix, key_data, value, ttl)
SetCached(t) ==
    /\ t \in active
    /\ tasks[t].pc \in {"idle", "done"}
    /\ \E k \in callers.keys, value \in callers.payloads,
          ttl \in callers.ttls, o \in RedisOutcomes :
          \E r \in {set_cached(k[1], k[2], value, ttl, o, _memory_cache,
                                redis, _redis_available, now)},
             key \in {_cache_key(k[1], k[2])} :
              /\ ~_redis_available => o = "ok"
              /\ _memory_cache' = r.cache
              /\ redis' = r.store
              /\ tasks' = [tasks EXCEPT ![t] =
                     [NoCall EXCEPT !.op = "set_cached", !.prefix = k[1],
                                    !.key_data = k[2], !.value = value,
                                    !.ttl = ttl, !.pc = "done", !.at = now,
                                    !.failed = (o = "error"),
                                    !.warned = r.warned,
                                    !.raised = r.raised]]
              /\ used' = [calls |-> Touch(used.calls, r.cache, key),
                          local |-> Touch(used.local, r.cache, key)]
    /\ UNCHANGED <<now, _redis_available, active, callers>>
    /\ UNCHANGED fetchVars
    /\ UNCHANGED routeVars
    /\ UNCHANGED pageVars

\* no fetch is running
FetchIdle ==
    /\ settings = <<>>
    /\ dns = [n \in DynamicNames |-> GaiError]
    /\ pc = "idle"
    /\ op = "none"
    /\ url = NoUrl
    /\ outcome = NoOutcome
    /\ cur = NoUrl
    /\ hops = 0
    /\ requests = 0
    /\ response = NoResponse
    /\ result = NoResult
    /\ exc = NoExc
    /\ http = NoHttp

\* after start-up: init_redis has reached the shared tier or it has not
InitCache ==
    /\ FetchIdle
    /\ now = 0
    /\ _memory_cache = <<>>
    /\ _redis_available \in BOOLEAN
    /\ redis = {}
    /\ tasks = [t \in TaskIds |-> NoCall]
    /\ active = {"t1"}
    /\ callers \in Workloads
    /\ used = NoUse
    /\ request = NotServing
    /\ args = NoArgs
    /\ returned = NoReturn

NextCache ==
    \/ Tick
    \/ \E t \in TaskIds : GetCached(t)
    \/ \E t \in TaskIds : SetCached(t)

SpecCache == InitCache /\ [][NextCache]_vars

----------------------------------------------------------------------------
(* The cached endpoints as a state machine *)

\* a request arrives: the endpoint builds its cache key and asks the
\* cache; a hit is answered at once with cached=True
RouteRequest ==
    /\ pc = "idle"
    /\ request = NotServing
    /\ \E req \in callers.requests, o \in RedisOutcomes :
          /\ ~_redis_available => o = "ok"
          /\ IF MissingInput(req)
             THEN /\ request' = Serving(req)
                  /\ exc' = MissingInputError
                  /\ http' = Reraised(MissingInputError)
                  /\ pc' = "responded"
                  /\ UNCHANGED <<_memory_cache, used>>
             ELSE \E r \in {get_cached(req.endpoint, cache_key(req), o,
                                       _memory_cache, redis,
                                       _redis_available, now)},
                     key \in {_cache_key(req.endpoint, cache_key(req))} :
                    /\ _memory_cache' = r.cache
                    /\ used' = [calls |-> Touch(used.calls, r.cache, key),
                                local |-> IF _redis_available /\ o = "ok"
                                             /\ redis_get(redis, key, now).found
                                          THEN used.local
                                          ELSE Touch(used.local, r.cache, key)]
                    /\ exc' = NoExc
                    /\ IF cached_hit(r.ret)
                       THEN /\ request' =
                                  [Serving(req) EXCEPT
                                     !.gets = 1,
                                     !.looked = [prefix |-> req.endpoint,
                                                 key_data |-> cache_key(req),
                                                 value |-> r.ret],
                                     !.response = [cached |-> TRUE,
                                                   data |-> r.ret]]
                            /\ http' = HTTPException(200, "", "", 0)
                            /\ pc' = "responded"
                       ELSE /\ request' =
                                  [Serving(req) EXCEPT
                                     !.gets = 1,
                                     !.looked = [prefix |-> req.endpoint,
                                                 key_data |-> cache_key(req),
                                                 value |-> r.ret]]
                            /\ http' = NoHttp
                            /\ pc' = "pipeline"
    /\ UNCHANGED <<settings, dns, op, url, outcome, cur, hops, requests,
                   response, result>>
    /\ UNCHANGED <<now, _redis_available, redis, tasks, active, callers>>
    /\ UNCHANGED pageVars

\* the next step of the try block runs: it returns, or it raises and the
\* route answers with the HTTPException itself or with
\* _handle_scrape_error(e, <endpoint>)
RunStage ==
    /\ pc = "pipeline"
    /\ request.stage <= Len(Stages(request.req))
    /\ LET stage == Stages(request.req)[request.stage]
           calls == StageCalls(stage)
           ran == [request EXCEPT
                     !.stage = @ + 1,
                     !.fetches = @ + calls.fetches,
                     !.extractions = @ + calls.extractions,
                     !.ai = @ + calls.ai]
       IN  \E e \in StageOutcomes(stage, request.req) :
              /\ request' = ran
              /\ exc' = e
              /\ IF e = NoExc
                 THEN UNCHANGED <<pc, http>>
                 ELSE /\ pc' = "responded"
                      /\ http' = IF e.type = "HTTPException"
                                 THEN Reraised(e)
                                 ELSE _handle_scrape_error(
                                         e, EndpointName(request.req.endpoint))
    /\ UNCHANGED <<settings, dns, op, url, outcome, cur, hops, requests,
                   response, result>>
    /\ UNCHANGED cacheVars
    /\ UNCHANGED pageVars

StoreResultAnyway ==
    /\ \/ pc = "pipeline" /\ request.stage > Len(Stages(request.req))
       \/ /\ pc = "responded"
          /\ exc # NoExc
          /\ request.sets = 0
          /\ ~MissingInput(request.req)
    /\ \E n \in 1..2, o \in RedisOutcomes :
          /\ ~_redis_available => o = "ok"
          /\ \E r \in {set_cached(request.req.endpoint,
                                  cache_key(request.req), Plain(n), 0, o,
                                  _memory_cache, redis, _redis_available,
                                  now)},
                key \in {_cache_key(request.req.endpoint,
                                    cache_key(request.req))} :
                /\ _memory_cache' = r.cache
                /\ redis' = r.store
                /\ used' = [calls |-> Touch(used.calls, r.cache, key),
                            local |-> Touch(used.local, r.cache, key)]
          /\ request' = [request EXCEPT
                           !.sets = @ + 1,
                           !.stored = [prefix |-> request.req.endpoint,
                                       key_data |-> cache_key(request.req),
                                       value |-> Plain(n)],
                           !.response = IF pc = "pipeline"
                                        THEN [cached |-> FALSE,
                                              data |-> Plain(n)]
                                        ELSE @]
          /\ http' = IF pc = "pipeline"
                     THEN HTTPException(200, "", "", 0) ELSE http
          /\ pc' = "responded"
    /\ UNCHANGED <<settings, dns, op, url, outcome, cur, hops, requests,
                   response, result, exc>>
    /\ UNCHANGED <<now, _redis_available, tasks, active, callers>>
    /\ UNCHANGED pageVars

\* the try block has its result: it is stored with set_cached under the
\* key that was looked up and returned with cached=False
StoreResult ==
    /\ pc = "pipeline"
    /\ request.stage > Len(Stages(request.req))
    /\ \E n \in 1..2, o \in RedisOutcomes :
          /\ ~_redis_available => o = "ok"
          /\ \E r \in {set_cached(request.req.endpoint,
                                  cache_key(request.req), Plain(n), 0, o,
                                  _memory_cache, redis, _redis_available,
                                  now)},
                key \in {_cache_key(request.req.endpoint,
                                    cache_key(request.req))} :
                /\ _memory_cache' = r.cache
                /\ redis' = r.store
                /\ used' = [calls |-> Touch(used.calls, r.cache, key),
                            local |-> Touch(used.local, r.cache, key)]
          /\ request' = [request EXCEPT
                           !.sets = @ + 1,
                           !.stored = [prefix |-> request.req.endpoint,
                                       key_data |-> cache_key(request.req),
                                       value |-> Plain(n)],
                           !.response = [cached |-> FALSE, data |-> Plain(n)]]
          /\ http' = HTTPException(200, "", "", 0)
          /\ pc' = "responded"
    /\ UNCHANGED <<settings, dns, op, url, outcome, cur, hops, requests,
                   response, result, exc>>
    /\ UNCHANGED <<now, _redis_available, tasks, active, callers>>
    /\ UNCHANGED pageVars

\* the response is sent; the endpoint is ready for the next request
RouteDone ==
    /\ pc = "responded"
    /\ request # NotServing
    /\ request' = NotServing
    /\ pc' = "idle"
    /\ exc' = NoExc
    /\ http' = NoHttp
    /\ UNCHANGED <<settings, dns, op, url, outcome, cur, hops, requests,
                   response, result>>
    /\ UNCHANGED cacheVars
    /\ UNCHANGED pageVars

\* after start-up, before the first request
InitRoute ==
    /\ FetchIdle
    /\ now = 0
    /\ _memory_cache = <<>>
    /\ _redis_available \in BOOLEAN
    /\ redis = {}
    /\ tasks = [t \in TaskIds |-> NoCall]
    /\ active = {}
    /\ callers \in RouteWorkloads
    /\ used = NoUse
    /\ request = NotServing
    /\ args = NoArgs
    /\ returned = NoReturn

NextRoute ==
    \/ Tick
    \/ RouteRequest
    \/ RunStage
    \/ StoreResult
    \/ RouteDone

SpecRoute == InitRoute /\ [][NextRoute]_vars

----------------------------------------------------------------------------
(* extract_content as a state machine: one call on any page *)

\* nothing else runs
ServersIdle ==
    /\ FetchIdle
    /\ CacheIdle
    /\ request = NotServing

ExtractContent ==
    /\ args.fn = "extract_content"
    /\ returned = NoReturn
    /\ returned' = extract_content(args)
    /\ UNCHANGED args
    /\ UNCHANGED fetchVars
    /\ UNCHANGED cacheVars
    /\ UNCHANGED routeVars

InitExtract ==
    /\ ServersIdle
    /\ \/ \E e \in Texts, f \in {<<>>, <<"a", "a", "a", "a">>}, m \in Texts,
             o \in {"text", "markdown"}, c \in ContentCaps :
                args = TextInput(e, f, m, o, c)
       \/ \E u \in PageUrls, ii \in BOOLEAN, il \in BOOLEAN, p \in PageRefs :
                args = PageInput(u, ii, il, p)
    /\ returned = NoReturn

NextExtract == ExtractContent

SpecExtract == InitExtract /\ [][NextExtract]_vars

----------------------------------------------------------------------------
(* extract_seo_metadata as a state machine: one call on any page *)

ExtractSeoMetadata ==
    /\ args.fn = "extract_seo_metadata"
    /\ returned = NoReturn
    /\ returned' = extract_seo_metadata(args)
    /\ UNCHANGED args
    /\ UNCHANGED fetchVars
    /\ UNCHANGED cacheVars
    /\ UNCHANGED routeVars

InitSeo ==
    /\ ServersIdle
    /\ args \in SeoInputs
    /\ returned = NoReturn

NextSeo == ExtractSeoMetadata

SpecSeo == InitSeo /\ [][NextSeo]_vars

----------------------------------------------------------------------------
(* compute_content_quality_score as a state machine: one call *)

ComputeContentQualityScore ==
    /\ args.fn = "compute_content_quality_score"
    /\ returned = NoReturn
    /\ returned' = compute_content_quality_score(args)
    /\ UNCHANGED args
    /\ UNCHANGED fetchVars
    /\ UNCHANGED cacheVars
    /\ UNCHANGED routeVars

InitQuality ==
    /\ ServersIdle
    /\ \E w \in WordCounts, s \in {4, 5}, f \in FleschScores,
          h1 \in 0..2, h2 \in 0..2, im \in ImageCounts,
          b \in [1..4 -> BOOLEAN] :
             args = QualityInput(w, s, f, h1, h2, im, b)
    /\ returned = NoReturn

NextQuality == ComputeContentQualityScore

SpecQuality == InitQuality /\ [][NextQuality]_vars

----------------------------------------------------------------------------
(* compute_readability as a state machine: one call on any text *)

ComputeReadability ==
    /\ args.fn = "compute_readability"
    /\ returned = NoReturn
    /\ returned' = compute_readability(args.text)
    /\ UNCHANGED args
    /\ UNCHANGED fetchVars
    /\ UNCHANGED cacheVars
    /\ UNCHANGED routeVars

InitReadability ==
    /\ ServersIdle
    /\ \/ args \in {[fn |-> "compute_readability", text |-> t] :
                        t \in ShortTexts}
       \/ args \in {[fn |-> "compute_readability", text |-> t] :
                        t \in LongTexts}
    /\ returned = NoReturn

NextReadability == ComputeReadability

SpecReadability == InitReadability /\ [][NextReadability]_vars

----------------------------------------------------------------------------
(* compute_similarity as a state machine: one call on any two texts *)

ComputeSimilarity ==
    /\ args.fn = "compute_similarity"
    /\ returned = NoReturn
    /\ returned' = compute_similarity(args.text1, args.text2)
    /\ UNCHANGED args
    /\ UNCHANGED fetchVars
    /\ UNCHANGED cacheVars
    /\ UNCHANGED routeVars

InitSimilarity ==
    /\ ServersIdle
    /\ \/ \E t1 \in SimilarityTexts, t2 \in SimilarityTexts :
             args = [fn |-> "compute_similarity", text1 |-> t1, text2 |-> t2]
       \/ \E t1 \in LongSimilarityTexts, t2 \in LongSimilarityTexts :
             args = [fn |-> "compute_similarity", text1 |-> t1, text2 |-> t2]
    /\ returned = NoReturn

NextSimilarity == ComputeSimilarity

SpecSimilarity == InitSimilarity /\ [][NextSimilarity]_vars

(* The result cache under concurrent callers: set_cached is one coroutine  *)
(* that writes the local tier and then suspends at `await                  *)
(* _redis_client.setex(...)`; other tasks run while it is suspended        *)

\* two callers that store different values under one key
ConcurrentWorkload ==
    [keys |-> {<<"prefix_a", "same-key">>}, payloads |-> {Plain(1), Plain(2)},
     ttls |-> Ttls, requests |-> {}]

\* a task calls set_cached(prefix, key_data, value, ttl) and runs it up to
\* the await: the local tier is written; with the shared tier in use the
\* SETEX is handed to the client and the task is suspended, otherwise the
\* call returns
SetCachedBegin(t) ==
    /\ t \in active
    /\ tasks[t].pc \in {"idle", "done"}
    /\ \E k \in callers.keys, value \in callers.payloads,
          ttl \in callers.ttls :
          \E key \in {_cache_key(k[1], k[2])} :
              /\ _memory_cache' =
                     TTLCache_setitem(_memory_cache, key, value, now,
                                      CacheTtl)
              /\ tasks' = [tasks EXCEPT ![t] =
                     [NoCall EXCEPT !.op = "set_cached", !.prefix = k[1],
                                    !.key_data = k[2], !.value = value,
                                    !.ttl = ttl,
                                    !.pc = IF _redis_available
                                           THEN "awaiting" ELSE "done",
                                    !.at = now]]
              /\ used' = [calls |-> Touch(used.calls, _memory_cache', key),
                          local |-> Touch(used.local, _memory_cache', key)]
    /\ UNCHANGED <<now, _redis_available, redis, active, callers>>
    /\ UNCHANGED fetchVars
    /\ UNCHANGED routeVars
    /\ UNCHANGED pageVars

\* the SETEX of a suspended task ends and set_cached returns: the shared
\* tier stores the encoded value, or the command raises and a warning is
\* logged.  The client sends the commands of different tasks over
\* different connections of its pool, so the shared tier may serve the
\* tasks that are suspended in any order.
SetCachedResume(t) ==
    /\ t \in active
    /\ tasks[t].pc = "awaiting"
    /\ \E o \in RedisOutcomes :
          /\ redis' = IF o = "ok"
                      THEN redis_setex(redis,
                               _cache_key(tasks[t].prefix, tasks[t].key_data),
                               TtlOr(tasks[t].ttl, CacheTtl),
                               json_dumps(tasks[t].value), now)
                      ELSE redis
          /\ tasks' = [tasks EXCEPT ![t].pc = "done",
                                    ![t].failed = (o = "error"),
                                    ![t].warned = (o = "error")]
    /\ UNCHANGED <<now, _memory_cache, _redis_available, active, callers,
                   used>>
    /\ UNCHANGED fetchVars
    /\ UNCHANGED routeVars
    /\ UNCHANGED pageVars

\* after start-up, with two tasks that call the cache
InitConcurrent ==
    /\ FetchIdle
    /\ now = 0
    /\ _memory_cache = <<>>
    /\ _redis_available \in BOOLEAN
    /\ redis = {}
    /\ tasks = [t \in TaskIds |-> NoCall]
    /\ active = TaskIds
    /\ callers = ConcurrentWorkload
    /\ used = NoUse
    /\ request = NotServing
    /\ args = NoArgs
    /\ returned = NoReturn

NextConcurrent ==
    \/ Tick
    \/ \E t \in TaskIds : GetCached(t)
    \/ \E t \in TaskIds : SetCachedBegin(t)
    \/ \E t \in TaskIds : SetCachedResume(t)

SpecConcurrent == InitConcurrent /\ [][NextConcurrent]_vars

----------------------------------------------------------------------------
(* The key material as a state machine: one endpoint builds the cache_key *)
(* of two requests                                                        *)

BuildCacheKey ==
    /\ args.fn = "cache_key"
    /\ returned = NoReturn
    /\ returned' = [fn |-> "cache_key", key1 |-> cache_key(args.req1),
                    key2 |-> cache_key(args.req2)]
    /\ UNCHANGED args
    /\ UNCHANGED fetchVars
    /\ UNCHANGED cacheVars
    /\ UNCHANGED routeVars

InitCacheKey ==
    /\ ServersIdle
    /\ \E e \in Endpoints :
          \E r1 \in RequestBodies(e), r2 \in RequestBodies(e) :
              args = [fn |-> "cache_key", req1 |-> r1, req2 |-> r2]
    /\ returned = NoReturn

NextCacheKey == BuildCacheKey

SpecCacheKey == InitCacheKey /\ [][NextCacheKey]_vars

----------------------------------------------------------------------------
(* Vocabulary of the properties *)

\* the reserved ranges, written out as ranges of the leading groups:
\* 10/8, 172.16/12, 192.168/16, 127/8, 169.254/16, 0/8, ::1/128, fc00::/7,
\* fe80::/10
PrivateRange(ip) ==
    \/ /\ ip.v = 4
       /\ \/ ip.g[1] = 10
          \/ ip.g[1] = 172 /\ ip.g[2] >= 16 /\ ip.g[2] <= 31
          \/ ip.g[1] = 192 /\ ip.g[2] = 168
          \/ ip.g[1] = 127
          \/ ip.g[1] = 169 /\ ip.g[2] = 254
          \/ ip.g[1] = 0
    \/ /\ ip.v = 6
       /\ \/ ip.g = <<0, 0, 0, 0, 0, 0, 0, 1>>
          \/ ip.g[1] >= 64512 /\ ip.g[1] <= 65023
          \/ ip.g[1] >= 65152 /\ ip.g[1] <= 65215

\* a well-formed URL with scheme http or https (in any case) and a host
HttpWithHost(u) ==
    /\ u.netlocOk
    /\ LowerStr(u.scheme) \in {"http", "https"}
    /\ u.host.kind # "none"

\* what the host of u resolves to under the answers d
Resolution(u, d) == getaddrinfo(LowerHost(u.host), d)

SomePrivate(addrs) ==
    \E i \in 1..Len(addrs) : addrs[i].v # 0 /\ PrivateRange(addrs[i])

AllPublic(addrs) ==
    /\ Len(addrs) > 0
    /\ \A i \in 1..Len(addrs) : addrs[i].v # 0 /\ ~PrivateRange(addrs[i])

OnDenyList(u) == LowerHost(u.host) \in _ALWAYS_BLOCKED_HOSTS

MatchesPattern(u, patterns) ==
    \E i \in 1..Len(patterns) : re_search(patterns[i], u)

\* validate_url returned u itself
Accepted(o, u) == o.exc = "none" /\ o.value = u

\* the step in which validate_url runs (directly or inside fetch_html)
ValidateStep == pc = "idle" /\ pc' # "idle"

ValidationErrors == {"InvalidScheme", "MissingHost", "BlockedHost",
                     "BlockedNetwork", "UnresolvableHost"}

\* the host is a literal in a reserved range or a name with at least one
\* resolved address in one
PrivateTarget(u, d) ==
    /\ HttpWithHost(u)
    /\ Resolution(u, d).err = "none"
    /\ SomePrivate(Resolution(u, d).addrs)

\* the host resolves, and only to addresses outside the reserved ranges
PublicTarget(u, d) ==
    /\ HttpWithHost(u)
    /\ Resolution(u, d).err = "none"
    /\ AllPublic(Resolution(u, d).addrs)

----------------------------------------------------------------------------
(* C1 *)

\* C1 as stated: every http/https URL whose host is a literal in a reserved
\* range, or a name with a resolved address in one, is rejected with
\* BlockedNetwork and with nothing else.
C1_AlwaysBlockedNetwork ==
    [][(ValidateStep /\ PrivateTarget(url', dns))
        => outcome' = Raise("URLValidationError", "BlockedNetwork")]_vars

\* C1 amended: such a URL is never accepted; it is rejected with
\* BlockedHost when its host is on the fixed deny-list or the URL matches a
\* configured pattern (both are tested before the host is resolved), and
\* with BlockedNetwork otherwise.
C1_PrivateNeverAccepted ==
    [][(ValidateStep /\ PrivateTarget(url', dns))
        => outcome' = Raise("URLValidationError",
                            IF OnDenyList(url') \/ MatchesPattern(url', settings)
                            THEN "BlockedHost" ELSE "BlockedNetwork")]_vars

C1_Witness ==
    /\ pc = "checked"
    /\ url.host.kind = "name"
    /\ PrivateTarget(url, dns)
    /\ AllPublic(<<Resolution(url, dns).addrs[1]>>)
    /\ outcome = Raise("URLValidationError", "BlockedNetwork")

----------------------------------------------------------------------------
(* C2 *)

\* the host of the URL fetch_html returned resolves to a reserved address
FinalHostPrivate ==
    /\ Resolution(result.final_url, dns).err = "none"
    /\ SomePrivate(Resolution(result.final_url, dns).addrs)

\* C2 as stated: after following redirects, fetch_html never returns
\* (html, final_url) for a final_url whose host resolves to a private,
\* loopback or link-local address.
C2_FinalUrlValidated ==
    (result.returned /\ hops > 0) => ~FinalHostPrivate

----------------------------------------------------------------------------
(* C3 *)

\* C3 as stated: in a fetch_html call no HTTP request is issued unless
\* validate_url succeeded before, and when validate_url fails no request
\* is made and the caller receives URLValidationError, which the route
\* answers with 400 INVALID_URL.
C3_ValidateBeforeGet ==
    op = "fetch_html" =>
        /\ requests > 0 => outcome.exc = "none"
        /\ outcome.exc # "none" =>
              /\ requests = 0
              /\ exc.type = "URLValidationError"
              /\ http.status = 400
              /\ http.code = "INVALID_URL"

----------------------------------------------------------------------------
(* C4 *)

AllDns == [DynamicNames -> DnsAnswers]

\* C4 as stated: a URL whose scheme is not http or https is rejected with
\* InvalidScheme whatever its host, an http/https URL without a hostname
\* with MissingHost, and both verdicts are reached before the host is
\* resolved (no resolver answer changes them).
C4_SchemeThenHost ==
    [][ValidateStep =>
        /\ LowerStr(url'.scheme) \notin {"http", "https"} =>
              /\ outcome' = Raise("URLValidationError", "InvalidScheme")
              /\ \A d \in AllDns : validate_url(url', d, settings) = outcome'
        /\ (LowerStr(url'.scheme) \in {"http", "https"}
                /\ url'.host.kind = "none") =>
              /\ outcome' = Raise("URLValidationError", "MissingHost")
              /\ \A d \in AllDns : validate_url(url', d, settings) = outcome'
       ]_vars

----------------------------------------------------------------------------
(* C5 *)

\* C5 as stated: validate_url returns the URL or raises URLValidationError
\* with one of the five reasons, nothing else escapes, and a host whose
\* resolution fails is rejected (with UnresolvableHost when the checks
\* reach the resolver), never accepted.
C5_OnlyValidationErrors ==
    [][ValidateStep =>
        /\ \/ Accepted(outcome', url')
           \/ /\ outcome'.exc = "URLValidationError"
              /\ outcome'.reason \in ValidationErrors
        /\ (HttpWithHost(url') /\ Resolution(url', dns).err = "gaierror") =>
              /\ outcome'.exc = "URLValidationError"
              /\ (~OnDenyList(url') /\ ~MatchesPattern(url', settings))
                    => outcome'.reason = "UnresolvableHost"
       ]_vars

----------------------------------------------------------------------------
(* C6 *)

\* C6 as stated: every http/https URL whose host resolves only to public
\* addresses is accepted and returned unchanged.
C6_PublicAccepted ==
    [][(ValidateStep /\ PublicTarget(url', dns))
        => Accepted(outcome', url')]_vars

\* C6 amended: every http/https URL whose host resolves only to public
\* addresses, whose host is not on the fixed deny-list and which matches no
\* configured blocked pattern, is accepted and returned unchanged, whatever
\* its port, path or query.
C6_PublicAcceptedUnlessDenied ==
    [][(ValidateStep /\ PublicTarget(url', dns)
            /\ ~OnDenyList(url') /\ ~MatchesPattern(url', settings))
        => Accepted(outcome', url')]_vars

C6_Witness ==
    /\ pc = "checked"
    /\ PublicTarget(url, dns)
    /\ url.scheme = "HTTP"
    /\ url.port = 8080
    /\ url.path = <<"path", "q=test">>
    /\ Accepted(outcome, url)

----------------------------------------------------------------------------
(* C7 *)

Received == response # NoResponse

\* C7: fetch_html returns only for a final status in 200..299; for every
\* other final status it raises HTTPStatusError carrying that status, which
\* the route answers with 502 UPSTREAM_ERROR quoting the status.
C7_Non2xxIsUpstreamError ==
    /\ result.returned => (response.status >= 200 /\ response.status <= 299)
    /\ (Received /\ ~(response.status >= 200 /\ response.status <= 299)) =>
          /\ ~result.returned
          /\ exc = StatusExc(response.status)
          /\ http.status = 502
          /\ http.code = "UPSTREAM_ERROR"
          /\ http.upstream = response.status

C7_Witness ==
    /\ pc = "responded"
    /\ response.status = 300
    /\ http.code = "UPSTREAM_ERROR"
    /\ http.upstream = 300

----------------------------------------------------------------------------
(* C8 *)

\* the declared content-type is HTML-like or text-like
HtmlOrTextLike(h) ==
    /\ h.present
    /\ \/ Contains(<<"h", "t", "m", "l">>, lower(h.value))
       \/ Contains(<<"t", "e", "x", "t">>, lower(h.value))

Unsupported == Exc("ValueError", "non-HTML content type")
TooLarge == Exc("ValueError", "Response too large")

\* C8 as stated: every returned page declares an HTML-like or text-like
\* content-type, and every response whose content-type is neither, header
\* present or absent, is rejected with UnsupportedContentType.
C8_DeclaredHtmlOrText ==
    /\ result.returned => HtmlOrTextLike(response.ctype)
    /\ (Received /\ ~HtmlOrTextLike(response.ctype)) =>
          (~result.returned /\ exc = Unsupported)

\* C8 amended: every returned page has a content-type header that is
\* absent, empty, or HTML-like or text-like; every 2xx response whose
\* content-type header is present, not empty and neither HTML-like nor
\* text-like is rejected with UnsupportedContentType and no html is
\* returned.
C8_NonEmptyTypeHtmlOrText ==
    /\ result.returned =>
          \/ ~response.ctype.present
          \/ response.ctype.value = <<>>
          \/ HtmlOrTextLike(response.ctype)
    /\ (Received /\ is_success(response.status) /\ response.ctype.present
            /\ response.ctype.value # <<>>
            /\ ~HtmlOrTextLike(response.ctype)) =>
          /\ ~result.returned
          /\ exc = Unsupported
          /\ http.code = "INVALID_CONTENT"

C8_Witness ==
    /\ pc = "responded"
    /\ response.status = 200
    /\ response.ctype = Header(<<"i", "m", "a", "g", "e", "/", "p", "n", "g">>)
    /\ exc = Unsupported

----------------------------------------------------------------------------
(* C9 *)

\* C9 as stated: every returned page has a body of at most 10,000,000
\* bytes, and every 2xx response of an accepted content-type whose body is
\* larger is rejected with ResponseTooLarge.
C9_AtMostTenMegabytes ==
    /\ result.returned => result.html.bytes <= MaxResponseSize
    /\ (Received /\ is_success(response.status)
            /\ ~NotHtmlIsh(HeaderGet(response.ctype, <<>>))
            /\ response.body.bytes > MaxResponseSize) =>
          (~result.returned /\ exc = TooLarge)

----------------------------------------------------------------------------
(* C10 *)

\* the failure a raised exception stands for
FailureKind(e) ==
    CASE isinstance(e, "TimeoutException") -> "Timeout"
      [] e.type = "ConnectError" -> "ConnectionFailed"
      [] e.type = "HTTPStatusError" -> "UpstreamStatusError"
      [] e = Unsupported -> "UnsupportedContentType"
      [] e = TooLarge -> "ResponseTooLarge"
      [] OTHER -> "other"

FiveFailures == {"Timeout", "ConnectionFailed", "UpstreamStatusError",
                 "UnsupportedContentType", "ResponseTooLarge"}

\* every exception fetch_html raises for one of the five failures
FetchFailures ==
    {e \in ({AfterGet(r) : r \in Responses}
            \cup {Exc("ConnectTimeout", "timeout"),
                  Exc("ReadTimeout", "timeout"),
                  Exc("ConnectError", "connect")}) :
        FailureKind(e) \in FiveFailures}

\* the failures that are local policy of the fetcher
LocalPolicy == {"UnsupportedContentType", "ResponseTooLarge"}

FailureClass(k) == IF k \in LocalPolicy THEN "LocalPolicy" ELSE k

\* C10 as stated: the five failures are reported as pairwise distinct
\* kinds: a failure that reached the caller shares neither its exception
\* type nor its error code with any of the other four.
C10_FivePairwiseDistinct ==
    (pc = "responded" /\ FailureKind(exc) \in FiveFailures) =>
        \A e \in FetchFailures :
            FailureKind(e) # FailureKind(exc) =>
                /\ e.type # exc.type
                /\ _handle_scrape_error(e, "extraction").code # http.code

\* C10 amended: Timeout, ConnectionFailed, UpstreamStatusError and the
\* local-policy failures are reported as four pairwise distinct kinds
\* (exception type and error code both differ); UnsupportedContentType and
\* ResponseTooLarge are both a ValueError reported as 422 INVALID_CONTENT
\* and differ only in the message.
C10_FourDistinctClasses ==
    (pc = "responded" /\ FailureKind(exc) \in FiveFailures) =>
        /\ \A e \in FetchFailures :
              FailureClass(FailureKind(e)) # FailureClass(FailureKind(exc)) =>
                  /\ e.type # exc.type
                  /\ _handle_scrape_error(e, "extraction").code # http.code
        /\ FailureKind(exc) \in LocalPolicy =>
              /\ exc.type = "ValueError"
              /\ http.status = 422
              /\ http.code = "INVALID_CONTENT"
              /\ http.message = exc.msg

C10_Witness ==
    /\ pc = "responded"
    /\ exc = TooLarge
    /\ http.code = "INVALID_CONTENT"

----------------------------------------------------------------------------
(* C11 *)

\* C11: the fetcher never retries. One fetch_html call issues one request
\* per URL of a single redirect chain (requests never exceed hops + 1), and
\* once the call has failed the failure stays as reported: no further
\* request is issued and the exception and the HTTP answer do not change
\* until the call is over.
C11_NoRetry ==
    [][/\ requests' <= hops' + 1
       /\ hops' <= MaxRedirects
       /\ exc # NoExc =>
             /\ pc = "responded"
             /\ \/ pc' = "idle"
                \/ /\ pc' = "responded"
                   /\ requests' = requests
                   /\ exc' = exc
                   /\ http' = http]_vars

\* a call that followed a redirect and then timed out
C11_Witness ==
    /\ pc = "responded"
    /\ isinstance(exc, "TimeoutException")
    /\ hops = 1
    /\ requests = 2

----------------------------------------------------------------------------
(* Vocabulary of the cache properties *)

\* the step is a cache call of task t; tasks'[t] tells which
CallBy(t) == t \in active /\ now' = now /\ tasks'[t].op # "none"

\* the step is a get_cached call of task t for the key its previous call,
\* a set_cached, wrote
SetThenGet(t) ==
    /\ CallBy(t)
    /\ tasks[t].op = "set_cached"
    /\ tasks'[t].op = "get_cached"
    /\ tasks'[t].prefix = tasks[t].prefix
    /\ tasks'[t].key_data = tasks[t].key_data

\* the ttl of the entry a set_cached call writes: its argument, or the
\* default
EntryTtl(c) == IF c.ttl = 0 THEN CacheTtl ELSE c.ttl

\* the keys of the unexpired entries of the local tier
LiveKeys(cache, time) ==
    {cache[i].key : i \in {j \in 1..Len(cache) : time < cache[j].expires}}

\* the values the unexpired entries of the local tier hold for a key
LocalValues(cache, key, time) ==
    {cache[i].value :
        i \in {j \in 1..Len(cache) :
                  cache[j].key = key /\ time < cache[j].expires}}

\* the values the shared tier holds for a key
SharedValues(store, key) ==
    {r.text.text : r \in {e \in store : e.key = key}}

----------------------------------------------------------------------------
(* C12 *)

\* C12: cache round trip. A get_cached(ns, key) that follows
\* set_cached(ns, key, payload), with no other call in between and before
\* the entry's TTL has elapsed, returns a value equal to payload, for every
\* namespace, key material and payload; a get_cached for a key no tier
\* holds returns None.
C12_RoundTrip ==
    [][\A t \in TaskIds :
          /\ (SetThenGet(t) /\ now' < tasks[t].at + EntryTtl(tasks[t])) =>
                tasks'[t].ret = tasks[t].value
          /\ (/\ CallBy(t)
              /\ tasks'[t].op = "get_cached"
              /\ \A k \in callers.keys :
                    /\ LocalValues(_memory_cache, _cache_key(k[1], k[2]),
                                   now) = {}
                    /\ SharedValues(redis, _cache_key(k[1], k[2])) = {}) =>
                tasks'[t].ret = None]_vars

----------------------------------------------------------------------------
(* C13 *)

\* C13: read-after-write within one instance. After set_cached(k, v)
\* has returned, the next get_cached(k) returns v, whether the shared tier
\* is not in use, fails on the write, fails on the read or still holds an
\* older value.  Stated for a non-empty payload of JSON values, which
\* both tiers return as it was stored.
C13_ReadAfterWrite ==
    [][\A t \in TaskIds :
          (/\ SetThenGet(t)
           /\ tasks[t].value.kind = "plain"
           /\ now' = tasks[t].at) =>
              tasks'[t].ret = tasks[t].value]_vars

----------------------------------------------------------------------------
(* C14 *)

\* C14: per-entry expiry. An entry written by set_cached(ns, key,
\* payload, ttl) is absent once ttl ticks have elapsed (the default TTL
\* when no ttl is passed): a get_cached of the key made then returns None.
C14_AbsentAfterTtl ==
    [][\A t \in TaskIds :
          (SetThenGet(t) /\ now' >= tasks[t].at + EntryTtl(tasks[t])) =>
              tasks'[t].ret = None]_vars

----------------------------------------------------------------------------
(* C15 *)

\* the answer of the local tier alone
LocalAnswer(cache, key, time) ==
    IF \E v \in LocalValues(cache, key, time) : v.kind # "empty"
    THEN CHOOSE v \in LocalValues(cache, key, time) : v.kind # "empty"
    ELSE None

\* C15: no cache call raises, and a failure of the shared tier during
\* get_cached or set_cached is logged and contained: get_cached answers
\* from the local tier and set_cached returns with the local tier written.
C15_SharedTierFailureContained ==
    [][\A t \in TaskIds :
          CallBy(t) =>
             /\ ~tasks'[t].raised
             /\ tasks'[t].failed =>
                   /\ tasks'[t].warned
                   /\ tasks'[t].op = "get_cached" =>
                         tasks'[t].ret =
                            LocalAnswer(_memory_cache,
                                        _cache_key(tasks'[t].prefix,
                                                   tasks'[t].key_data), now)
                   /\ tasks'[t].op = "set_cached" =>
                         LocalValues(_memory_cache',
                                     _cache_key(tasks'[t].prefix,
                                                tasks'[t].key_data), now)
                            = {tasks'[t].value}]_vars

\* a get_cached whose GET failed and that the local tier answered; a
\* set_cached whose SETEX failed is what wrote the shared tier's older
\* value out of date
C15_Witness ==
    /\ tasks["t1"].op = "get_cached"
    /\ tasks["t1"].failed
    /\ tasks["t1"].ret # None

----------------------------------------------------------------------------
(* C16 *)

\* the key of S that comes first in an order of use
First(order, S) ==
    order[CHOOSE i \in 1..Len(order) :
             /\ order[i] \in S
             /\ \A j \in 1..(i - 1) : order[j] \notin S]

\* the step is a set_cached call of task t that inserts a new key into a
\* local tier full of unexpired entries
InsertIntoFull(t) ==
    /\ CallBy(t)
    /\ tasks'[t].op = "set_cached"
    /\ _cache_key(tasks'[t].prefix, tasks'[t].key_data)
          \notin LiveKeys(_memory_cache, now)
    /\ Cardinality(LiveKeys(_memory_cache, now)) = LocalMaxSize

\* C16 as stated: the local tier never holds more than its bound (1000
\* entries in the program), and inserting a new key into a full local
\* tier evicts exactly one entry, the least recently used unexpired one,
\* where every get_cached and every set_cached call on a key is a use.
C16_LruByCalls ==
    [][/\ Len(_memory_cache') <= LocalMaxSize
       /\ \A t \in TaskIds :
             InsertIntoFull(t) =>
                LiveKeys(_memory_cache, now) \ LiveKeys(_memory_cache', now)
                   = {First(used.calls, LiveKeys(_memory_cache, now))}]_vars

\* C16 amended: the same, where a use of a key is a set_cached call or a
\* get_cached call that read the local tier; a get_cached answered by the
\* shared tier does not touch the local tier.
C16_LruByLocalUse ==
    [][/\ Len(_memory_cache') <= LocalMaxSize
       /\ \A t \in TaskIds :
             InsertIntoFull(t) =>
                LiveKeys(_memory_cache, now) \ LiveKeys(_memory_cache', now)
                   = {First(used.local, LiveKeys(_memory_cache, now))}]_vars

\* a set_cached has evicted an entry, which the shared tier still holds,
\* that was written after an entry the local tier kept: a get_cached had
\* made the older entry the more recently used one
C16_Witness ==
    /\ tasks["t1"].op = "set_cached"
    /\ Len(_memory_cache) = LocalMaxSize
    /\ \E r \in redis :
          /\ r.key \notin LiveKeys(_memory_cache, now)
          /\ \E i \in 1..Len(_memory_cache) :
                _memory_cache[i].expires < r.expires

----------------------------------------------------------------------------
(* C17 *)

\* the key a set_cached call has just stored its value under
StoredKey == _memory_cache'[Len(_memory_cache')].key

\* what the step leaves of the entries of the other namespaces: the local
\* tier may drop them but holds no other value for them, and the shared
\* tier holds what it held
OtherNamespacesKept(prefix) ==
    /\ \A i \in 1..Len(_memory_cache') :
          _memory_cache'[i].key[2] # prefix =>
             \E j \in 1..Len(_memory_cache) :
                /\ _memory_cache[j].key = _memory_cache'[i].key
                /\ _memory_cache[j].value = _memory_cache'[i].value
    /\ {r \in redis' : r.key[2] # prefix} = {r \in redis : r.key[2] # prefix}

\* what a get_cached call may answer: nothing, or a value held under the
\* namespace and the key data it was called with
OwnAnswer(c) ==
    \/ c.ret = None
    \/ \E i \in 1..Len(_memory_cache) :
          /\ _memory_cache[i].key[2] = c.prefix
          /\ _memory_cache[i].key[3]
                = SubSeq(sha256_hexdigest(c.key_data), 1, 16)
          /\ _memory_cache[i].value = c.ret
    \/ \E r \in redis :
          /\ r.key[2] = c.prefix
          /\ r.key[3] = SubSeq(sha256_hexdigest(c.key_data), 1, 16)
          /\ r.text.text = c.ret

\* C17 as stated: the fingerprint is the first 16 hex digits of a digest
\* of namespace and key material together, and entries stored under
\* different namespaces with the same key material never overwrite or
\* shadow each other.
C17_DigestOfNamespaceAndKey ==
    [][\A t \in TaskIds :
          CallBy(t) =>
             /\ tasks'[t].op = "set_cached" =>
                   /\ StoredKey[3] =
                         SubSeq(sha256_hexdigest(tasks'[t].prefix
                                                 \o tasks'[t].key_data), 1, 16)
                   /\ OtherNamespacesKept(tasks'[t].prefix)
             /\ tasks'[t].op = "get_cached" => OwnAnswer(tasks'[t])]_vars

\* C17 amended: the fingerprint is "ciq:", the namespace in clear, ":" and
\* the first 16 hex digits of the SHA-256 digest of the key material
\* alone; so keys of different namespaces differ, a set_cached leaves the
\* entries of the other namespaces as they were (the local tier may evict
\* one), and a get_cached answers None or a value held under its own
\* namespace and key material.
C17_NamespaceInKey ==
    [][\A t \in TaskIds :
          CallBy(t) =>
             /\ tasks'[t].op = "set_cached" =>
                   /\ StoredKey =
                         <<"ciq", tasks'[t].prefix,
                           SubSeq(sha256_hexdigest(tasks'[t].key_data), 1, 16)>>
                   /\ OtherNamespacesKept(tasks'[t].prefix)
             /\ tasks'[t].op = "get_cached" => OwnAnswer(tasks'[t])]_vars

\* both namespaces hold a value of their own for the same key material,
\* and a get_cached has answered with the one of its namespace
C17_Witness ==
    /\ \E i, j \in 1..Len(_memory_cache) :
          /\ _memory_cache[i].key[2] = "prefix_a"
          /\ _memory_cache[j].key[2] = "prefix_b"
          /\ _memory_cache[i].key[3] = _memory_cache[j].key[3]
          /\ _memory_cache[i].value = Plain(1)
          /\ _memory_cache[j].value = Rich(1)
    /\ tasks["t1"].op = "get_cached"
    /\ tasks["t1"].prefix = "prefix_a"
    /\ tasks["t1"].ret = Plain(1)

----------------------------------------------------------------------------
(* C18 *)

\* the endpoint has answered 200
Answered == pc = "responded" /\ http.status = 200

\* C18: cache hit and miss of the six cached endpoints. Every request
\* that passes the input check looks its key up once, under the
\* endpoint's namespace. If get_cached returned a value, no fetch,
\* extraction or AI call and no set_cached is made and the response
\* carries that value with cached=true. Otherwise the try block runs, and
\* when it has its result, the result is written with set_cached exactly
\* once, under the namespace and key that were looked up, and the
\* response carries it with cached=false.
C18_HitSkipsMissStores ==
    (request # NotServing /\ ~MissingInput(request.req)) =>
       /\ request.gets = 1
       /\ request.looked.prefix = request.req.endpoint
       /\ request.looked.value # None =>
             /\ request.fetches = 0
             /\ request.extractions = 0
             /\ request.ai = 0
             /\ request.sets = 0
             /\ Answered
             /\ request.response =
                   [cached |-> TRUE, data |-> request.looked.value]
       /\ request.looked.value = None =>
             /\ request.sets <= 1
             /\ request.sets = 1 <=> Answered
             /\ Answered =>
                   /\ request.stage > Len(Stages(request.req))
                   /\ request.stored.prefix = request.looked.prefix
                   /\ request.stored.key_data = request.looked.key_data
                   /\ request.response =
                         [cached |-> FALSE, data |-> request.stored.value]

\* /analyze answers from the cache what an earlier request stored
C18_Witness ==
    /\ Answered
    /\ request.req.endpoint = "analyze"
    /\ request.response.cached
    /\ request.response.data = Plain(2)

----------------------------------------------------------------------------
(* C19 *)

\* the name of the endpoint in upper case, followed by _FAILED
UpperFailed(endpoint) ==
    CASE endpoint = "extract" -> "EXTRACTION_FAILED"
      [] endpoint = "summarize" -> "SUMMARIZATION_FAILED"
      [] endpoint = "sentiment" -> "SENTIMENT_FAILED"
      [] endpoint = "seo" -> "SEO_EXTRACTION_FAILED"
      [] endpoint = "analyze" -> "ANALYSIS_FAILED"
      [] endpoint = "compare" -> "COMPARISON_FAILED"

\* the status and the code of the one HTTP error an exception is mapped to
MappedTo(e, endpoint) ==
    CASE e.type = "HTTPException" -> <<e.status, e.msg>>
      [] e.type = "URLValidationError" -> <<400, "INVALID_URL">>
      [] e.type \in {"ConnectTimeout", "ReadTimeout"} -> <<504, "TIMEOUT">>
      [] e.type = "HTTPStatusError" -> <<502, "UPSTREAM_ERROR">>
      [] e.type = "ConnectError" -> <<502, "CONNECTION_FAILED">>
      [] e.type \in {"ValueError", "UnicodeError"} ->
            <<422, "INVALID_CONTENT">>
      [] OTHER -> <<500, UpperFailed(endpoint)>>

\* C19: an exception raised while an endpoint serves a request reaches
\* the client as exactly one HTTP error: URLValidationError as 400
\* INVALID_URL, an httpx timeout as 504 TIMEOUT, an HTTP status error as
\* 502 UPSTREAM_ERROR, a connect error as 502 CONNECTION_FAILED, a
\* ValueError as 422 INVALID_CONTENT, anything else as 500
\* <ENDPOINT>_FAILED; an HTTPException raised inside the route keeps its
\* status and code.
C19_OneErrorPerException ==
    (request # NotServing /\ exc # NoExc) =>
       /\ pc = "responded"
       /\ <<http.status, http.code>> = MappedTo(exc, request.req.endpoint)

\* /compare answers 500 COMPARISON_FAILED for an exception of no listed
\* class
C19_Witness ==
    /\ request.req.endpoint = "compare"
    /\ exc.type = "RuntimeError"
    /\ http.status = 500
    /\ http.code = "COMPARISON_FAILED"

----------------------------------------------------------------------------
(* C20 *)

\* the text the extractors found on the page
ExtractedText(a) == IF a.extracted # <<>> THEN a.extracted ELSE a.fallback

\* the last three characters are "..."
EndsWithEllipsis(s) ==
    /\ Len(s) >= 3
    /\ SubSeq(s, Len(s) - 2, Len(s)) = <<".", ".", ".">>

\* C20 as stated: the body text extract_content returns is at most
\* max_content_length characters long and ends with an ellipsis whenever
\* the extracted text exceeded the cap; the same holds, independently,
\* for the markdown rendering.
C20_WithinCap ==
    returned.fn = "extract_content" =>
       /\ Len(returned.text) <= args.cap
       /\ Len(ExtractedText(args)) > args.cap =>
             EndsWithEllipsis(returned.text)
       /\ returned.has_markdown =>
             /\ Len(returned.markdown) <= args.cap
             /\ Len(args.md) > args.cap =>
                   EndsWithEllipsis(returned.markdown)

\* C20 amended: the body text is the extracted text when that is at most
\* max_content_length characters long, and otherwise its first
\* max_content_length characters followed by "...", so at most
\* max_content_length + 3 characters; the same holds, independently, for
\* the markdown rendering.
C20_CapPlusEllipsis ==
    returned.fn = "extract_content" =>
       /\ Len(returned.text) <= args.cap + 3
       /\ Len(ExtractedText(args)) <= args.cap =>
             returned.text = ExtractedText(args)
       /\ Len(ExtractedText(args)) > args.cap =>
             /\ SubSeq(returned.text, 1, args.cap)
                   = SubSeq(ExtractedText(args), 1, args.cap)
             /\ Len(returned.text) = args.cap + 3
             /\ EndsWithEllipsis(returned.text)
       /\ returned.has_markdown =>
             /\ Len(returned.markdown) <= args.cap + 3
             /\ Len(args.md) <= args.cap => returned.markdown = args.md
             /\ Len(args.md) > args.cap =>
                   /\ SubSeq(returned.markdown, 1, args.cap)
                         = SubSeq(args.md, 1, args.cap)
                   /\ Len(returned.markdown) = args.cap + 3
                   /\ EndsWithEllipsis(returned.markdown)

\* a page whose text is over the cap and whose markdown is not
C20_Witness ==
    /\ returned.fn = "extract_content"
    /\ Len(ExtractedText(args)) > args.cap
    /\ returned.has_markdown
    /\ Len(args.md) <= args.cap
    /\ EndsWithEllipsis(returned.text)
    /\ ~EndsWithEllipsis(returned.markdown)

----------------------------------------------------------------------------
(* C21 *)

\* the URLs the references of a list resolve to, in document order
Resolved(base, refs) == [i \in 1..Len(refs) |-> urljoin(base, refs[i])]

\* the place of the first occurrence of u in s (0 when there is none)
FirstAt(s, u) ==
    IF \E i \in 1..Len(s) : s[i] = u
    THEN CHOOSE i \in 1..Len(s) :
            s[i] = u /\ \A j \in 1..(i - 1) : s[j] # u
    ELSE 0

\* out lists, without duplicates and in the order of their first
\* occurrence in `all`, the first `limit` of the URLs of `all` that are
\* in `kept`
FirstDistinct(out, all, limit, kept) ==
    LET at == [i \in 1..Len(out) |-> FirstAt(all, out[i])]
    IN  /\ Len(out) <= limit
        /\ \A i \in 1..Len(out) : at[i] > 0 /\ out[i] \in kept
        /\ \A i \in 1..(Len(out) - 1) : at[i] < at[i + 1]
        /\ \A k \in 1..Len(all) :
              all[k] \in kept =>
                 \/ \E i \in 1..Len(out) : out[i] = all[k]
                 \/ /\ Len(out) = limit
                    /\ at[limit] < k

\* C21: extract_content returns image URLs only when include_images is
\* set and link URLs only when include_links is set; the images are at
\* most 50 and the links at most 100, each an absolute URL, without
\* duplicates, in the order of their first occurrence on the page, and
\* every link has the scheme http or https.
C21_ImagesAndLinks ==
    returned.fn = "extract_content" =>
       LET imgs == Resolved(args.url, args.imgs)
           hrefs == Resolved(args.url, args.anchors)
           any == {imgs[i] : i \in 1..Len(imgs)}
           web == {hrefs[i] : i \in 1..Len(hrefs)}
       IN  /\ ~args.include_images => returned.images = <<>>
           /\ ~args.include_links => returned.links = <<>>
           /\ args.include_images =>
                 FirstDistinct(returned.images, imgs, 50, any)
           /\ args.include_links =>
                 FirstDistinct(returned.links, hrefs, 100,
                               {u \in web : u.scheme \in {"http", "https"}})
           /\ \A i \in 1..Len(returned.images) :
                 returned.images[i].scheme # ""
           /\ \A i \in 1..Len(returned.links) :
                 returned.links[i].scheme \in {"http", "https"}

\* a page with more distinct images than 50 and more distinct links than
\* 100, each referred to twice, and a mailto link
C21_Witness ==
    /\ returned.fn = "extract_content"
    /\ args.include_images
    /\ args.include_links
    /\ Len(args.imgs) > 100
    /\ Len(returned.images) = 50
    /\ Len(returned.links) = 100
    /\ \E i \in 1..Len(args.anchors) : args.anchors[i].scheme = "mailto"

----------------------------------------------------------------------------
(* C22 *)

\* C22: extract_seo_metadata returns at most 10 schema.org entries, each
\* with its own type tag: the type tags and the payloads are equally many
\* (at most 10) and the i-th tag is the type of the i-th payload.
C22_TaggedEntries ==
    returned.fn = "extract_seo_metadata" =>
       LET m == returned.schema_markup
       IN  /\ Len(m.types) = Len(m.data)
           /\ Len(m.data) <= 10
           /\ \A i \in 1..Len(m.data) : m.types[i] = type_tag(m.data[i])

----------------------------------------------------------------------------
(* C23 *)

----------------------------------------------------------------------------
(* C24 *)

\* the signal a recommendation is about
Concerns(msg, a) ==
    CASE msg = "Content is very thin. Aim for 500+ words for better engagement."
           -> "thin content"
      [] msg = "Articles under 300 words typically rank poorly in search engines."
           -> "thin content"
      [] msg = "Content is very difficult to read. Simplify sentences and vocabulary."
           -> "flesch"
      [] msg = "Content may be too simplistic for a professional audience."
           -> "flesch"
      [] msg = "Multiple H1 tags detected. Use exactly one H1 per page."
           -> "h1"
      [] msg = "Missing H1 tag. Every page should have a single H1 heading."
           -> "h1"
      [] msg = "Add H2 subheadings to break up content and improve scannability."
           -> "h2"
      [] msg = ToString(a.images_without_alt)
                 \o " image(s) missing alt text. Add descriptive alt attributes."
           -> "images"
      [] msg = "No images found. Adding relevant images improves engagement and SEO."
           -> "images"
      [] msg = "Missing meta description. Add one for better search engine snippets."
           -> "meta description"
      [] msg = "Missing Open Graph tags. Add them for better social media sharing."
           -> "open graph"
      [] msg = "No Schema.org markup found. Add structured data for rich search results."
           -> "schema markup"
      [] OTHER -> "none"

\* the missing or deficient signals of a page
Deficient(a) ==
    {s \in {"thin content", "flesch", "h1", "h2", "images",
            "meta description", "canonical", "open graph", "schema markup"} :
        CASE s = "thin content" -> a.word_count < 300
          [] s = "flesch" ->
                a.flesch_reading_ease < 300 \/ a.flesch_reading_ease > 900
          [] s = "h1" -> a.h1_count # 1
          [] s = "h2" -> a.h2_count = 0
          [] s = "images" -> a.total_images = 0 \/ a.images_without_alt > 0
          [] s = "meta description" -> ~a.has_meta_description
          [] s = "canonical" -> ~a.has_canonical
          [] s = "open graph" -> ~a.has_open_graph
          [] OTHER -> ~a.has_schema_markup}

\* C24: compute_content_quality_score appends a recommendation for each
\* missing or deficient signal (thin content, Flesch outside the readable
\* band, H1 absent or multiple, no H2, no images or images without alt
\* text, and each absent SEO signal: meta description, canonical, Open
\* Graph title, schema markup) and returns the first 8 of them: a signal
\* without a recommendation in the returned list has been cut off by the
\* limit of 8.
C24_EachSignalAdvised ==
    returned.fn = "compute_content_quality_score" =>
       LET recs == returned.recommendations
       IN  /\ Len(recs) <= 8
           /\ \A s \in Deficient(args) :
                 \/ \E i \in 1..Len(recs) : Concerns(recs[i], args) = s
                 \/ Len(recs) = 8

----------------------------------------------------------------------------
(* C25 *)

\* the number of maximal runs of ASCII letters in a text
WordsIn(text) ==
    Cardinality({i \in 1..Len(text) :
                    /\ text[i] \in Letters
                    /\ i > 1 => text[i - 1] \notin Letters})

\* every score, average, density, percentage and reading time is 0 and no
\* division was made
ZeroScores(r) ==
    /\ r.flesch_reading_ease = 0
    /\ r.flesch_kincaid_grade = 0
    /\ r.coleman_liau_index = 0
    /\ r.automated_readability_index = 0
    /\ r.avg_grade_level = 0
    /\ r.avg_sentence_length = 0
    /\ r.avg_word_length = 0
    /\ r.avg_syllables_per_word = 0
    /\ r.vocabulary_density = 0
    /\ r.complex_word_pct = 0
    /\ r.reading_time_seconds = 0
    /\ r.reading_time_minutes = 0
    /\ ~r.divided

\* C25 as stated: for a text of fewer than 10 words compute_readability
\* returns 0 for the Flesch Reading Ease, the three grade estimators,
\* their average and every derived average, density, percentage and
\* reading time, without dividing, and the label 'too short to analyze'.
C25_TooShortLabelled ==
    (returned.fn = "compute_readability" /\ WordsIn(args.text) < 10) =>
       /\ ZeroScores(returned)
       /\ returned.reading_level = "too short to analyze"

\* C25 amended: the same, with the label 'Too short to analyze'.
C25_TooShortZeroed ==
    (returned.fn = "compute_readability" /\ WordsIn(args.text) < 10) =>
       /\ ZeroScores(returned)
       /\ returned.reading_level = "Too short to analyze"

\* a text of nine words in nine sentences
C25_Witness ==
    /\ returned.fn = "compute_readability"
    /\ WordsIn(args.text) = 9
    /\ returned.word_count = 9
    /\ returned.sentence_count = 9
    /\ returned.reading_level = "Too short to analyze"

----------------------------------------------------------------------------
(* C26 *)

\* C26: compute_similarity(t, t) has the score 1.0 for every text t that
\* is not empty; with the empty text on either side the score is 0.0 and
\* the keyword lists are empty; the score is always between 0 and 1.
C26_SelfSimilarity ==
    returned.fn = "compute_similarity" =>
       /\ (args.text1 = args.text2 /\ args.text1 # <<>>) =>
             returned.similarity_score = 10000
       /\ (args.text1 = <<>> \/ args.text2 = <<>>) =>
             /\ returned.similarity_score = 0
             /\ returned.shared_keywords = <<>>
             /\ returned.unique_to_text1 = <<>>
             /\ returned.unique_to_text2 = <<>>
       /\ returned.similarity_score >= 0
       /\ returned.similarity_score <= 10000

----------------------------------------------------------------------------
(* C27 *)

\* the words of a text
WordsOf(text) ==
    LET words == Runs(text, Letters)
    IN  {words[i] : i \in 1..Len(words)}

\* the elements of a list
Elements(s) == {s[i] : i \in 1..Len(s)}

\* the three keyword lists have no word in common and at most 20 entries
\* each
KeywordListsApart(r) ==
    /\ Elements(r.shared_keywords) \cap Elements(r.unique_to_text1) = {}
    /\ Elements(r.shared_keywords) \cap Elements(r.unique_to_text2) = {}
    /\ Elements(r.unique_to_text1) \cap Elements(r.unique_to_text2) = {}
    /\ Len(r.shared_keywords) <= 20
    /\ Len(r.unique_to_text1) <= 20
    /\ Len(r.unique_to_text2) <= 20

\* C27 as stated: for two distinct texts with no word in common,
\* unique_to_text1 and unique_to_text2 are both non-empty; for any two
\* texts the three keyword lists are pairwise disjoint and have at most
\* 20 entries each.
C27_UniqueKeywordsFound ==
    returned.fn = "compute_similarity" =>
       /\ KeywordListsApart(returned)
       /\ (/\ args.text1 # args.text2
           /\ WordsOf(args.text1) \cap WordsOf(args.text2) = {}) =>
             /\ returned.unique_to_text1 # <<>>
             /\ returned.unique_to_text2 # <<>>

\* a text has a word for the keyword lists: at most 60 distinct words,
\* one of them of more than two letters and no stopword
HasKeyword(text) ==
    /\ Cardinality(WordsOf(text)) <= 60
    /\ \E w \in WordsOf(text) : Len(w) > 2 /\ w \notin stopwords

\* C27 amended: for two texts with no word in common, each with at most
\* 60 distinct words of which one has more than two letters and is no
\* stopword, unique_to_text1 and unique_to_text2 are both non-empty; for
\* any two texts the three keyword lists are pairwise disjoint and have at
\* most 20 entries each.
C27_UniqueKeywordsOfKeywordTexts ==
    returned.fn = "compute_similarity" =>
       /\ KeywordListsApart(returned)
       /\ (/\ WordsOf(args.text1) \cap WordsOf(args.text2) = {}
           /\ HasKeyword(args.text1)
           /\ HasKeyword(args.text2)) =>
             /\ returned.unique_to_text1 # <<>>
             /\ returned.unique_to_text2 # <<>>

\* two texts of 21 keywords each, none in common: both lists are cut to 20
C27_Witness ==
    /\ returned.fn = "compute_similarity"
    /\ WordsOf(args.text1) \cap WordsOf(args.text2) = {}
    /\ Cardinality(WordsOf(args.text1)) > 20
    /\ Len(returned.unique_to_text1) = 20
    /\ Len(returned.unique_to_text2) = 20
    /\ returned.shared_keywords = <<>>

----------------------------------------------------------------------------
(* C28: concurrent writers *)

\* both tasks have completed a set_cached call on (prefix, key_data), with
\* different values, no SETEX failed, and both tiers still hold the key
BothStored(k) ==
    /\ _redis_available
    /\ \A t \in TaskIds :
          /\ tasks[t].op = "set_cached"
          /\ tasks[t].pc = "done"
          /\ ~tasks[t].failed
          /\ <<tasks[t].prefix, tasks[t].key_data>> = k
    /\ tasks["t1"].value # tasks["t2"].value
    /\ contains(_memory_cache, _cache_key(k[1], k[2]), now)
    /\ redis_get(redis, _cache_key(k[1], k[2]), now).found

\* C28: when two set_cached calls for the same (namespace, key) with
\* different values have both completed, the local tier and the shared
\* tier hold the same value for the key, and a get_cached call then
\* returns that value.
C28_TiersAgree ==
    \A k \in CallKeys :
        BothStored(k) =>
            LET key == _cache_key(k[1], k[2])
                held == Entry(_memory_cache, key).value
            IN  /\ json_loads(redis_get(redis, key, now).text) = held
                /\ get_cached(k[1], k[2], "ok", _memory_cache, redis,
                              _redis_available, now).ret = held

----------------------------------------------------------------------------
(* C29: the key material tells requests apart *)

\* the inputs of a request that its result is computed from: /summarize
\* and /sentiment work on the page of the url when there is one and on
\* the whole raw text otherwise
ResultInputs(req) ==
    [endpoint |-> req.endpoint,
     url |-> req.url,
     url2 |-> req.url2,
     text |-> IF req.url = "" THEN req.text ELSE NoText,
     include_images |-> req.include_images,
     include_links |-> req.include_links,
     output_format |-> req.output_format,
     format |-> req.format,
     max_length |-> req.max_length,
     language |-> req.language]

\* C29: two requests to one endpoint that differ in an input which
\* affects the result (URL, raw text of any length, include_images,
\* include_links, output_format, summary format, max length, language,
\* order of url1 and url2) are never looked up under the same cache key
\* material.
C29_KeysTellRequestsApart ==
    (/\ returned.fn = "cache_key"
     /\ ResultInputs(args.req1) # ResultInputs(args.req2))
        => returned.key1 # returned.key2

----------------------------------------------------------------------------
(* C30: a failed request and the cache *)

\* the request being served has been answered with an error
Failed ==
    /\ pc = "responded"
    /\ request # NotServing
    /\ http.status # 200

\* how the GET of a lookup may end
GetOutcomes == IF _redis_available THEN RedisOutcomes ELSE {"ok"}

\* what the next request with the same body would be answered by the cache
NextLookup(o) ==
    get_cached(request.req.endpoint, cache_key(request.req), o,
               _memory_cache, redis, _redis_available, now)

\* the request made no set_cached call
NothingStored ==
    /\ request.sets = 0
    /\ request.stored = NoLookup

====
